---- MODULE Spec2Model ----
(***************************************************************************)
(* Model of amixaam/speech-bubble-translate:                               *)
(*   - visualize_bounds.py: group_text_regions_by_distance,                *)
(*     merge_overlapping_bubbles, filter_and_prioritize_bubbles            *)
(*   - insert_translated_text.py: fit_text_to_bubble                       *)
(* Python lists are sequences (1-based here, 0-based in the source), a     *)
(* text fragment (an OCR dict) is a record with the dict's keys.           *)
(***************************************************************************)
EXTENDS Integers, Sequences, FiniteSets, TLC

(***************************************************************************)
(* Bounds of the model.                                                    *)
(***************************************************************************)
\* longest list of text regions handed to the clustering
MaxFrags == 3
\* pixel size of one grid cell the regions are laid out on
GridUnit == 280
\* largest max_bubbles handed to filter_and_prioritize_bubbles
MaxCount == 3
\* longest text handed to fit_text_to_bubble, in characters
MaxTextLen == 4
\* most bubble records in the final-bounds file of one image
MaxRecords == 2

(***************************************************************************)
(* Program constants (visualize_bounds.py).  The two float weights are     *)
(* kept as exact quarters: 1.5 = 6/4 and 0.75 = 3/4.                       *)
(***************************************************************************)
MAX_BUBBLES == 2
CLUSTERING_EPS == 225
VERTICAL_WEIGHT_Q == 6
HORIZONTAL_PENALTY_Q == 3

(***************************************************************************)
(* Program constants (insert_translated_text.py)                           *)
(***************************************************************************)
FONT_SIZE == 16
min_font_size == 12
max_font_size == 64
\* the callers' cap on the size they pass: min(font_size, 32)
CallerCap == 32

VARIABLES
  \* ---- visualize_bounds.py ----
  regions,        \* the text regions read from the bounds file
  pc,             \* position of the bubble pipeline
  bubble_groups,  \* merge_overlapping_bubbles: the list being merged (the caller's list object)
  bubble_boxes,   \* merge_overlapping_bubbles: bounding boxes, parallel to bubble_groups
  i, j, merged,   \* merge_overlapping_bubbles: loop indices (0-based as in the source) and flag
  merge_arg,      \* value of the argument list when merge_overlapping_bubbles was called
  merge_calls,    \* how many times merge_overlapping_bubbles was called on this data
  first_merge,    \* what the first call of merge_overlapping_bubbles returned
  max_bubbles,    \* filter_and_prioritize_bubbles: its max_bubbles argument
  filter_arg,     \* filter_and_prioritize_bubbles: its bubble_groups argument
  filter_out,     \* filter_and_prioritize_bubbles: [kind |-> "return"|"TypeError", value |-> list]
  overwrite,      \* save_final_bounds: its overwrite argument
  existed,        \* save_final_bounds: whether the output file existed at the call
  final_data,     \* save_final_bounds: final_data['bubbles']
  final_file,     \* the final-bounds file of the image
  save_ret,       \* save_final_bounds: what it returned, "path" or "None"
  vis_file,       \* the visualization image of the input: "absent", "old" or "written"
  vis_ret         \* visualize_speech_bubbles: "path", "None" or the exception it raised

svars == <<overwrite, existed, final_data, final_file, save_ret, vis_file, vis_ret>>

bvars == <<regions, pc, bubble_groups, bubble_boxes, i, j, merged, merge_arg,
           merge_calls, first_merge, max_bubbles, filter_arg, filter_out, svars>>

VARIABLES
  \* ---- insert_translated_text.py, fit_text_to_bubble ----
  text,           \* the text to fit, a string as the sequence of its characters
  bubble_width,   \* width of the speech bubble
  bubble_height,  \* height of the speech bubble
  font_size,      \* the font_size argument (the callers' max_size)
  lpc,            \* position in fit_text_to_bubble: "call", "scan", "returned", "raised"
  test_size,      \* the loop variable of the font-size scan
  ret,            \* what the call returned, and from where
  fit_calls,      \* how many calls of fit_text_to_bubble were made so far
  first_call,     \* the first call's bubble_width and what it returned or raised
  locals          \* step 2's locals: lines, words (those still to come), current_line,
                  \* remaining_word

lvars == <<text, bubble_width, bubble_height, font_size, lpc, test_size, ret,
           fit_calls, first_call, locals>>

VARIABLES
  \* ---- insert_translated_text.py, the callers of fit_text_to_bubble ----
  bubbles,            \* the bubble records of the image, from the final-bounds file
  translations,       \* get_translated_text(...) for each bubble of the image
  cli_font_size,      \* the callers' font_size argument (--font-size)
  ipc,                \* position of the caller: "start", "loop", "done"
  bubble_index,       \* process_all_bubbles_in_image: the loop index (0-based)
  bubbles_processed,  \* process_all_bubbles_in_image: bubbles drawn so far
  drawn,              \* the draw.text calls made on the image, one entry per bubble
  conditions,         \* what was reported for each bubble handled, in order
  image_ret,          \* what the caller returned, and whether the image was saved
  SUCCESS_COUNT, FAILURE_COUNT, WARNING_COUNT    \* the global counters, lines 34-36

ivars == <<bubbles, translations, cli_font_size, ipc, bubble_index, bubbles_processed,
           drawn, conditions, image_ret, SUCCESS_COUNT, FAILURE_COUNT, WARNING_COUNT>>

vars == <<bvars, lvars, ivars>>

(***************************************************************************)
(* Helpers                                                                 *)
(***************************************************************************)
SetMin(S) == CHOOSE m \in S : \A n \in S : m <= n
SetMax(S) == CHOOSE m \in S : \A n \in S : m >= n
Min2(a, b) == IF a <= b THEN a ELSE b
Max2(a, b) == IF a >= b THEN a ELSE b
Range(s) == {s[k] : k \in 1..Len(s)}

\* the lexicographic order on triples of natural numbers, which is well-founded
LexLess(a, b) ==
  \/ a[1] < b[1]
  \/ a[1] = b[1] /\ a[2] < b[2]
  \/ a[1] = b[1] /\ a[2] = b[2] /\ a[3] < b[3]

\* list.pop(j) with a 0-based index j
Pop(s, idx) == [k \in 1..(Len(s) - 1) |-> IF k <= idx THEN s[k] ELSE s[k + 1]]

(***************************************************************************)
(* group_text_regions_by_distance                                          *)
(***************************************************************************)
\* center point of a region, lines 65-66 (// is floor division)
Center(region) ==
  <<region.x + region.width \div 2, region.y + region.height \div 2>>

\* a mutant of Neighbours: the two weights are left out of the distance
NeighboursUnweighted(p, q, eps, vwq, hpq) ==
  LET dx == 4 * (p[1] - q[1])
      dy == 4 * (p[2] - q[2])
  IN dx * dx + dy * dy <= (4 * eps) * (4 * eps)

\* DBSCAN's neighbourhood test on the transformed points
\* [x * horizontal_penalty, y * vertical_weight]: Euclidean distance <= eps.
\* With the weights in quarters both sides are scaled by 4 and squared.
Neighbours(p, q, eps, vwq, hpq) ==
  LET dx == hpq * (p[1] - q[1])
      dy == vwq * (p[2] - q[2])
  IN dx * dx + dy * dy <= (4 * eps) * (4 * eps)

\* DBSCAN(eps, min_samples=1): every point is a core point, so a cluster is a
\* connected component of the neighbourhood graph.  Reach is the component
\* of the indices in S.
RECURSIVE Reach(_, _, _, _, _)
Reach(S, points, eps, vwq, hpq) ==
  LET T == S \cup {k \in 1..Len(points) :
                     \E s \in S : Neighbours(points[s], points[k], eps, vwq, hpq)}
  IN IF T = S THEN S ELSE Reach(T, points, eps, vwq, hpq)

\* the regions whose index is in comp, in input order (lines 77-80)
RECURSIVE PickRegions(_, _, _)
PickRegions(rs, comp, k) ==
  IF k > Len(rs) THEN <<>>
  ELSE (IF k \in comp THEN <<rs[k]>> ELSE <<>>) \o PickRegions(rs, comp, k + 1)

\* a mutant of GroupedFrom: a group is placed where its last region is seen
RECURSIVE GroupedFromLastSeen(_, _, _, _, _, _)
GroupedFromLastSeen(rs, points, k, eps, vwq, hpq) ==
  IF k > Len(rs) THEN <<>>
  ELSE LET comp == Reach({k}, points, eps, vwq, hpq)
       IN (IF SetMax(comp) = k THEN <<PickRegions(rs, comp, 1)>> ELSE <<>>)
            \o GroupedFromLastSeen(rs, points, k + 1, eps, vwq, hpq)

\* grouped_regions is a dict keyed by label: a label's group is created when
\* the label is first seen, so groups come in the order of their first region
RECURSIVE GroupedFrom(_, _, _, _, _, _)
GroupedFrom(rs, points, k, eps, vwq, hpq) ==
  IF k > Len(rs) THEN <<>>
  ELSE LET comp == Reach({k}, points, eps, vwq, hpq)
       IN (IF SetMin(comp) = k THEN <<PickRegions(rs, comp, 1)>> ELSE <<>>)
            \o GroupedFrom(rs, points, k + 1, eps, vwq, hpq)

group_text_regions_by_distance(rs, eps, vwq, hpq) ==
  IF Len(rs) = 0 THEN <<>>
  ELSE GroupedFrom(rs, [k \in 1..Len(rs) |-> Center(rs[k])], 1, eps, vwq, hpq)

\* ---- the same function by way of DBSCAN's labels ----
\* the clusters of the points, each as its set of indices
ClustersOf(points, eps, vwq, hpq) ==
  {Reach({k}, points, eps, vwq, hpq) : k \in 1..Len(points)}

\* clustering.labels_: the clusters are numbered 0, 1, ... in some order and
\* every point has the number of its cluster
Labellings(points, eps, vwq, hpq) ==
  LET cs == ClustersOf(points, eps, vwq, hpq)
  IN {[k \in 1..Len(points) |-> num[CHOOSE c \in cs : k \in c]] :
        num \in {f \in [cs -> 0..(Cardinality(cs) - 1)] :
                   \A c, d \in cs : c # d => f[c] # f[d]}}

\* for i, label in enumerate(labels): ... (lines 76-80); grouped_regions is a
\* dict, kept here as the list of its items in insertion order
RECURSIVE GroupLoop(_, _, _, _)
GroupLoop(rs, labels, k, grouped_regions) ==
  IF k > Len(rs) THEN grouped_regions
  ELSE LET known == {n \in 1..Len(grouped_regions) : grouped_regions[n].label = labels[k]}
           created == IF known = {}
                      THEN Append(grouped_regions, [label |-> labels[k], regions |-> <<>>])
                      ELSE grouped_regions
           at == CHOOSE n \in 1..Len(created) : created[n].label = labels[k]
       IN GroupLoop(rs, labels, k + 1,
                    [created EXCEPT ![at].regions = Append(@, rs[k])])

\* list(grouped_regions.values()), line 82
GroupByLabels(rs, labels) ==
  LET grouped_regions == GroupLoop(rs, labels, 1, <<>>)
  IN [n \in 1..Len(grouped_regions) |-> grouped_regions[n].regions]

(***************************************************************************)
(* merge_overlapping_bubbles                                               *)
(***************************************************************************)
\* bounding box (min_x, min_y, max_x, max_y) of a bubble, lines 100-104
BoundingBox(bubble) ==
  <<SetMin({bubble[k].x : k \in 1..Len(bubble)}),
    SetMin({bubble[k].y : k \in 1..Len(bubble)}),
    SetMax({bubble[k].x + bubble[k].width : k \in 1..Len(bubble)}),
    SetMax({bubble[k].y + bubble[k].height : k \in 1..Len(bubble)})>>

\* a mutant of BoxesOverlap: the last comparison reads the wrong corner
BoxesOverlapWrongCorner(box_i, box_j) ==
  /\ box_i[1] < box_j[3] /\ box_i[3] > box_j[1]
  /\ box_i[2] < box_j[4] /\ box_i[4] > box_j[4]

\* the overlap test of lines 119-120 (tuples are 1-based here)
BoxesOverlap(box_i, box_j) ==
  /\ box_i[1] < box_j[3] /\ box_i[3] > box_j[1]
  /\ box_i[2] < box_j[4] /\ box_i[4] > box_j[2]

\* The function's locals as one record m:
\*   pc: "outer" (line 108), "row" (line 111), "pair" (line 113), "return" (line 143)
MergeEntry(groups) ==
  IF Len(groups) <= 1
  THEN [pc |-> "return", bubble_groups |-> groups, bubble_boxes |-> <<>>,
        i |-> 0, j |-> 0, merged |-> FALSE]
  ELSE [pc |-> "outer", bubble_groups |-> groups,
        bubble_boxes |-> [k \in 1..Len(groups) |-> BoundingBox(groups[k])],
        i |-> 0, j |-> 0, merged |-> TRUE]

\* a mutant of OuterLoop: merged is not set back to False
OuterLoopNoReset(m) ==
  IF m.merged
  THEN [m EXCEPT !.i = 0, !.pc = "row"]
  ELSE [m EXCEPT !.pc = "return"]

\* while merged: merged = False; i = 0          (lines 108-110, 143)
OuterLoop(m) ==
  IF m.merged
  THEN [m EXCEPT !.merged = FALSE, !.i = 0, !.pc = "row"]
  ELSE [m EXCEPT !.pc = "return"]

\* while i < len(bubble_groups): j = i + 1      (lines 111-112)
RowStart(m) ==
  IF m.i < Len(m.bubble_groups)
  THEN [m EXCEPT !.j = m.i + 1, !.pc = "pair"]
  ELSE [m EXCEPT !.pc = "outer"]

\* a mutant of PairStep: the merge forgets to set merged, so the scan is
\* never restarted
PairStepNoRestart(m) ==
  IF m.j < Len(m.bubble_groups)
  THEN LET box_i == m.bubble_boxes[m.i + 1]
           box_j == m.bubble_boxes[m.j + 1]
       IN IF BoxesOverlap(box_i, box_j)
          THEN [m EXCEPT
                 !.bubble_groups =
                    Pop([m.bubble_groups EXCEPT ![m.i + 1] = @ \o m.bubble_groups[m.j + 1]], m.j),
                 !.bubble_boxes =
                    Pop([m.bubble_boxes EXCEPT ![m.i + 1] =
                           <<Min2(box_i[1], box_j[1]), Min2(box_i[2], box_j[2]),
                             Max2(box_i[3], box_j[3]), Max2(box_i[4], box_j[4])>>], m.j)]
          ELSE [m EXCEPT !.j = m.j + 1]
  ELSE IF m.merged
       THEN [m EXCEPT !.pc = "outer"]
       ELSE [m EXCEPT !.i = m.i + 1, !.pc = "row"]

\* a mutant of PairStep: bubble j's regions are put before bubble i's
PairStepPrepend(m) ==
  IF m.j < Len(m.bubble_groups)
  THEN LET box_i == m.bubble_boxes[m.i + 1]
           box_j == m.bubble_boxes[m.j + 1]
       IN IF BoxesOverlap(box_i, box_j)
          THEN [m EXCEPT
                 !.bubble_groups =
                    Pop([m.bubble_groups EXCEPT ![m.i + 1] = m.bubble_groups[m.j + 1] \o @], m.j),
                 !.bubble_boxes =
                    Pop([m.bubble_boxes EXCEPT ![m.i + 1] =
                           <<Min2(box_i[1], box_j[1]), Min2(box_i[2], box_j[2]),
                             Max2(box_i[3], box_j[3]), Max2(box_i[4], box_j[4])>>], m.j),
                 !.merged = TRUE]
          ELSE [m EXCEPT !.j = m.j + 1]
  ELSE IF m.merged
       THEN [m EXCEPT !.pc = "outer"]
       ELSE [m EXCEPT !.i = m.i + 1, !.pc = "row"]

\* a mutant of PairStep: the merged bubble keeps the box it had
PairStepStaleBox(m) ==
  IF m.j < Len(m.bubble_groups)
  THEN LET box_i == m.bubble_boxes[m.i + 1]
           box_j == m.bubble_boxes[m.j + 1]
       IN IF BoxesOverlap(box_i, box_j)
          THEN [m EXCEPT
                 !.bubble_groups =
                    Pop([m.bubble_groups EXCEPT ![m.i + 1] = @ \o m.bubble_groups[m.j + 1]], m.j),
                 !.bubble_boxes = Pop(m.bubble_boxes, m.j),
                 !.merged = TRUE]
          ELSE [m EXCEPT !.j = m.j + 1]
  ELSE IF m.merged
       THEN [m EXCEPT !.pc = "outer"]
       ELSE [m EXCEPT !.i = m.i + 1, !.pc = "row"]

\* one turn of "while j < len(bubble_groups)" (lines 113-137), and what
\* follows the loop when it ends (lines 139-141)
PairStep(m) ==
  IF m.j < Len(m.bubble_groups)
  THEN LET box_i == m.bubble_boxes[m.i + 1]
           box_j == m.bubble_boxes[m.j + 1]
       IN IF BoxesOverlap(box_i, box_j)
          THEN [m EXCEPT
                 \* bubble_groups[i].extend(bubble_groups[j]); bubble_groups.pop(j)
                 !.bubble_groups =
                    Pop([m.bubble_groups EXCEPT ![m.i + 1] = @ \o m.bubble_groups[m.j + 1]], m.j),
                 \* bubble_boxes[i] = union rectangle; bubble_boxes.pop(j)
                 !.bubble_boxes =
                    Pop([m.bubble_boxes EXCEPT ![m.i + 1] =
                           <<Min2(box_i[1], box_j[1]), Min2(box_i[2], box_j[2]),
                             Max2(box_i[3], box_j[3]), Max2(box_i[4], box_j[4])>>], m.j),
                 !.merged = TRUE]
          ELSE [m EXCEPT !.j = m.j + 1]
  ELSE IF m.merged
       THEN [m EXCEPT !.pc = "outer"]          \* if merged: break
       ELSE [m EXCEPT !.i = m.i + 1, !.pc = "row"]

MergeStepOf(m) ==
  CASE m.pc = "outer" -> OuterLoop(m)
    [] m.pc = "row"   -> RowStart(m)
    [] m.pc = "pair"  -> PairStep(m)
    [] OTHER          -> m

RECURSIVE MergeRun(_)
MergeRun(m) == IF m.pc = "return" THEN m.bubble_groups ELSE MergeRun(MergeStepOf(m))

\* the function as a whole: what a call returns
merge_overlapping_bubbles(groups) == MergeRun(MergeEntry(groups))

(***************************************************************************)
(* filter_and_prioritize_bubbles                                           *)
(***************************************************************************)
\* area of a bubble's bounding box, lines 162-166
BubbleArea(bubble) ==
  LET b == BoundingBox(bubble) IN (b[3] - b[1]) * (b[4] - b[2])

\* Comparing two (area, bubble) tuples with "<" compares the bubbles when the
\* areas are equal; two lists are compared at their first unequal elements,
\* which are dicts, and dict < dict raises TypeError.  Lists of which one is a
\* prefix of the other are compared by length and raise nothing.
TupleCompareRaises(a, b) ==
  /\ a[1] = b[1]
  /\ \E k \in 1..Min2(Len(a[2]), Len(b[2])) : a[2][k] # b[2][k]

\* a sort must compare some two of the items of equal area to order them
SortRaises(items) ==
  \E a, b \in 1..Len(items) : a # b /\ TupleCompareRaises(items[a], items[b])

\* number of items that come before items[k] in descending order; sort() is
\* stable and reverse=True keeps the original order of equal items
RankDesc(items, k) ==
  Cardinality({n \in 1..Len(items) :
     \/ items[n][1] > items[k][1]
     \/ items[n][1] = items[k][1] /\ Len(items[n][2]) > Len(items[k][2])
     \/ items[n][1] = items[k][1] /\ Len(items[n][2]) = Len(items[k][2]) /\ n < k})

SortedDesc(items) ==
  [r \in 1..Len(items) |-> items[CHOOSE k \in 1..Len(items) : RankDesc(items, k) = r - 1]]

\* a mutant of filter_and_prioritize_bubbles: the sorted list is not cut
filter_uncut(groups, maxb) ==
  IF Len(groups) = 0 \/ Len(groups) <= maxb
  THEN [kind |-> "return", value |-> groups]
  ELSE LET bubble_areas == [k \in 1..Len(groups) |-> <<BubbleArea(groups[k]), groups[k]>>]
       IN IF SortRaises(bubble_areas)
          THEN [kind |-> "TypeError", value |-> <<>>]
          ELSE [kind |-> "return",
                value |-> [k \in 1..Len(groups) |-> SortedDesc(bubble_areas)[k][2]]]

\* a mutant of filter_and_prioritize_bubbles: "<" for "<=" in the guard
filter_strict_guard(groups, maxb) ==
  IF Len(groups) = 0 \/ Len(groups) < maxb
  THEN [kind |-> "return", value |-> groups]
  ELSE LET bubble_areas == [k \in 1..Len(groups) |-> <<BubbleArea(groups[k]), groups[k]>>]
       IN IF SortRaises(bubble_areas)
          THEN [kind |-> "TypeError", value |-> <<>>]
          ELSE [kind |-> "return",
                value |-> [k \in 1..Min2(maxb, Len(groups)) |-> SortedDesc(bubble_areas)[k][2]]]

\* lines 156-171
filter_and_prioritize_bubbles(groups, maxb) ==
  IF Len(groups) = 0 \/ Len(groups) <= maxb
  THEN [kind |-> "return", value |-> groups]
  ELSE LET bubble_areas == [k \in 1..Len(groups) |-> <<BubbleArea(groups[k]), groups[k]>>]
       IN IF SortRaises(bubble_areas)
          THEN [kind |-> "TypeError", value |-> <<>>]
          ELSE [kind |-> "return",
                \* bubble_areas[:max_bubbles]
                value |-> [k \in 1..Min2(maxb, Len(groups)) |-> SortedDesc(bubble_areas)[k][2]]]

(***************************************************************************)
(* The bubble pipeline as a state machine                                  *)
(***************************************************************************)
\* The regions lie on a canvas of CellsX by CellsY grid cells; a region is
\* one, two or four cells large and lies within the canvas.
Shapes == {<<1, 1>>, <<2, 1>>, <<2, 2>>}
CellsX == {0, 1, 2}
CellsY == {0, 1}
Geometries ==
  {[x |-> cx * GridUnit, y |-> cy * GridUnit,
    width |-> s[1] * GridUnit, height |-> s[2] * GridUnit] :
     <<cx, cy, s>> \in {t \in CellsX \X CellsY \X Shapes :
                          /\ t[1] + t[3][1] <= SetMax(CellsX) + 1
                          /\ t[2] + t[3][2] <= SetMax(CellsY) + 1}}
TextOf == <<"a", "b", "c", "d", "e", "f">>

\* every fragment of a list has its own text, so no two are equal dicts
WithTexts(g) ==
  [k \in 1..Len(g) |-> [x |-> g[k].x, y |-> g[k].y, width |-> g[k].width,
                        height |-> g[k].height, text |-> TextOf[k]]]

NoResult == [kind |-> "none", value |-> <<>>]

\* the final-bounds file: not there, an older file, or the file just written
NoFile == [state |-> "absent", bubbles |-> <<>>]
OldFile == [state |-> "old", bubbles |-> <<>>]

\* save_final_bounds has not been called
SaveIdle ==
  /\ overwrite = FALSE
  /\ existed = FALSE
  /\ final_data = <<>>
  /\ final_file = NoFile
  /\ save_ret = "none"
  /\ vis_file = "absent"
  /\ vis_ret = "none"

\* three more bounds files: two regions with centers 500 px apart at equal y,
\* two regions with centers 30 px apart at equal x, and three regions of three
\* different areas far from each other
ExampleGeometries ==
  {<<[x |-> 0, y |-> 0, width |-> 100, height |-> 20],
     [x |-> 500, y |-> 0, width |-> 100, height |-> 20]>>,
   <<[x |-> 0, y |-> 0, width |-> 100, height |-> 20],
     [x |-> 0, y |-> 30, width |-> 100, height |-> 20]>>,
   <<[x |-> 0, y |-> 0, width |-> 100, height |-> 20],
     [x |-> 500, y |-> 0, width |-> 140, height |-> 20],
     [x |-> 1000, y |-> 0, width |-> 120, height |-> 20]>>}

BubbleInit ==
  /\ \/ \E n \in 0..MaxFrags : \E g \in [1..n -> Geometries] : regions = WithTexts(g)
     \/ \E g \in ExampleGeometries : regions = WithTexts(g)
  /\ pc = "start"
  /\ bubble_groups = <<>>
  /\ bubble_boxes = <<>>
  /\ i = 0 /\ j = 0 /\ merged = FALSE
  /\ merge_arg = <<>>
  /\ merge_calls = 0
  /\ first_merge = <<>>
  /\ max_bubbles = 0
  /\ filter_arg = <<>>
  /\ filter_out = NoResult
  /\ SaveIdle

\* visualize_speech_bubbles, lines 274-276
Cluster ==
  /\ pc = "start"
  /\ bubble_groups' = group_text_regions_by_distance(
                         regions, CLUSTERING_EPS, VERTICAL_WEIGHT_Q, HORIZONTAL_PENALTY_Q)
  /\ pc' = "clustered"
  /\ UNCHANGED <<regions, bubble_boxes, i, j, merged, merge_arg, merge_calls,
                 first_merge, max_bubbles, filter_arg, filter_out, svars, lvars, ivars>>

merge_locals ==
  [pc |-> pc, bubble_groups |-> bubble_groups, bubble_boxes |-> bubble_boxes,
   i |-> i, j |-> j, merged |-> merged]

SetMergeLocals(m) ==
  /\ pc' = m.pc
  /\ bubble_groups' = m.bubble_groups
  /\ bubble_boxes' = m.bubble_boxes
  /\ i' = m.i /\ j' = m.j /\ merged' = m.merged

\* a call of merge_overlapping_bubbles: on the clustering's groups (line 279),
\* or once more on the list an earlier call returned
MergeCall ==
  /\ \/ pc = "clustered"
     \/ pc = "return" /\ merge_calls = 1
  /\ merge_arg' = bubble_groups
  /\ merge_calls' = merge_calls + 1
  /\ first_merge' = IF pc = "return" THEN bubble_groups ELSE first_merge
  /\ SetMergeLocals(MergeEntry(bubble_groups))
  /\ UNCHANGED <<regions, max_bubbles, filter_arg, filter_out, svars, lvars, ivars>>

MergeOuter ==
  /\ pc = "outer"
  /\ SetMergeLocals(OuterLoop(merge_locals))
  /\ UNCHANGED <<regions, merge_arg, merge_calls, first_merge, max_bubbles,
                 filter_arg, filter_out, svars, lvars, ivars>>

MergeRow ==
  /\ pc = "row"
  /\ SetMergeLocals(RowStart(merge_locals))
  /\ UNCHANGED <<regions, merge_arg, merge_calls, first_merge, max_bubbles,
                 filter_arg, filter_out, svars, lvars, ivars>>

MergePair ==
  /\ pc = "pair"
  /\ SetMergeLocals(PairStep(merge_locals))
  /\ UNCHANGED <<regions, merge_arg, merge_calls, first_merge, max_bubbles,
                 filter_arg, filter_out, svars, lvars, ivars>>

\* a call of filter_and_prioritize_bubbles on the groups at hand: the merged
\* groups (line 282), or the clustering's groups
Filter ==
  /\ pc \in {"clustered", "return"}
  /\ \E maxb \in 0..MaxCount :
       /\ max_bubbles' = maxb
       /\ filter_arg' = bubble_groups
       /\ filter_out' = filter_and_prioritize_bubbles(bubble_groups, maxb)
  /\ pc' = "filtered"
  /\ UNCHANGED <<regions, bubble_groups, bubble_boxes, i, j, merged, merge_arg,
                 merge_calls, first_merge, svars, lvars, ivars>>

\* " ".join(region['text'] for region in bubble), line 204
RECURSIVE JoinTexts(_)
JoinTexts(bubble) ==
  IF bubble = <<>> THEN ""
  ELSE IF Len(bubble) = 1 THEN bubble[1].text
  ELSE bubble[1].text \o " " \o JoinTexts(Tail(bubble))

\* a mutant of FinalBubble: the bubbles are numbered from 0
FinalBubbleFromZero(idx, bubble) ==
  LET box == BoundingBox(bubble)
  IN [bubble_number |-> idx,
      x |-> box[1], y |-> box[2],
      width |-> box[3] - box[1], height |-> box[4] - box[2],
      text |-> JoinTexts(bubble),
      text_regions |-> bubble]

\* the record appended for bubble number idx (0-based) of enumerate, lines 196-215
FinalBubble(idx, bubble) ==
  LET box == BoundingBox(bubble)
  IN [bubble_number |-> idx + 1,
      x |-> box[1], y |-> box[2],
      width |-> box[3] - box[1], height |-> box[4] - box[2],
      text |-> JoinTexts(bubble),
      text_regions |-> bubble]

\* save_final_bounds(data, bubble_groups, json_path, overwrite) on the groups
\* the filter returned (lines 282-285): the records are built, and the file is
\* written unless it exists and overwrite is not set (lines 186-232).  The
\* pipeline saves what it clustered, merged once and filtered (lines 274-285).
Save ==
  /\ pc = "filtered"
  /\ merge_calls = 1
  /\ filter_out.kind = "return"
  /\ final_data' = [k \in 1..Len(filter_out.value) |-> FinalBubble(k - 1, filter_out.value[k])]
  /\ \E ex \in BOOLEAN, ow \in BOOLEAN :
       /\ existed' = ex
       /\ overwrite' = ow
       /\ IF ex /\ ~ow
          THEN final_file' = OldFile /\ save_ret' = "None"
          ELSE final_file' = [state |-> "written", bubbles |-> final_data']
                 /\ save_ret' = "path"
  /\ pc' = "saved"
  /\ UNCHANGED <<regions, bubble_groups, bubble_boxes, i, j, merged, merge_arg,
                 merge_calls, first_merge, max_bubbles, filter_arg, filter_out,
                 vis_file, vis_ret, lvars, ivars>>

BubbleNext ==
  Cluster \/ MergeCall \/ MergeOuter \/ MergeRow \/ MergePair \/ Filter \/ Save

(***************************************************************************)
(* visualize_speech_bubbles as one step, with the files it finds and writes *)
(***************************************************************************)
\* a mutant of save_final_bounds: the file is written whatever overwrite says
save_final_bounds_always(file, final, ow) ==
  [file |-> [state |-> "written", bubbles |-> final], ret |-> "path"]

\* save_final_bounds, lines 221-232: the file after the call and what the
\* call returns, given the file before it and the bubbles of final_data
save_final_bounds(file, final, ow) ==
  IF file.state # "absent" /\ ~ow
  THEN [file |-> file, ret |-> "None"]
  ELSE [file |-> [state |-> "written", bubbles |-> final], ret |-> "path"]

\* the files of an input before the run: each is there or not
PipelineInit ==
  /\ \/ \E n \in 0..MaxFrags : \E g \in [1..n -> Geometries] : regions = WithTexts(g)
     \/ \E g \in ExampleGeometries : regions = WithTexts(g)
  /\ pc = "start"
  /\ bubble_groups = <<>>
  /\ bubble_boxes = <<>>
  /\ i = 0 /\ j = 0 /\ merged = FALSE
  /\ merge_arg = <<>>
  /\ merge_calls = 0
  /\ first_merge = <<>>
  /\ max_bubbles = 0
  /\ filter_arg = <<>>
  /\ filter_out = NoResult
  /\ overwrite = FALSE
  /\ existed = FALSE
  /\ final_data = <<>>
  /\ final_file \in {NoFile, OldFile}
  /\ save_ret = "none"
  /\ vis_file \in {"absent", "old"}
  /\ vis_ret = "none"

\* visualize_speech_bubbles(json_path, overwrite), lines 234-318.  image_ok:
\* the image exists and cv2.imread could read it (lines 253-261).
VisualizeSpeechBubbles ==
  /\ pc = "start"
  /\ pc' = "done"
  /\ \E image_ok \in BOOLEAN, ow \in BOOLEAN :
       /\ overwrite' = ow
       /\ IF ~image_ok \/ Len(regions) = 0
          THEN \* return None, lines 255, 260, 270
               /\ vis_ret' = "None"
               /\ UNCHANGED <<bubble_groups, merge_arg, merge_calls, max_bubbles, filter_arg,
                              filter_out, existed, final_data, final_file, save_ret, vis_file>>
          ELSE
            \E grouped \in {group_text_regions_by_distance(
                               regions, CLUSTERING_EPS, VERTICAL_WEIGHT_Q, HORIZONTAL_PENALTY_Q)} :
            \E merged_groups \in {merge_overlapping_bubbles(grouped)} :
            \E out \in {filter_and_prioritize_bubbles(merged_groups, MAX_BUBBLES)} :
              /\ merge_arg' = grouped
              /\ merge_calls' = 1
              /\ max_bubbles' = MAX_BUBBLES
              /\ filter_arg' = merged_groups
              /\ filter_out' = out
              /\ IF out.kind # "return"
                 THEN \* the sort of line 168 raised
                      /\ bubble_groups' = merged_groups
                      /\ vis_ret' = out.kind
                      /\ UNCHANGED <<existed, final_data, final_file, save_ret, vis_file>>
                 ELSE
                   /\ bubble_groups' = out.value
                   /\ existed' = (final_file.state # "absent")
                   /\ final_data' = [k \in 1..Len(out.value) |->
                                       FinalBubble(k - 1, out.value[k])]
                   /\ \E saved \in {save_final_bounds(final_file, final_data', ow)} :
                        /\ final_file' = saved.file
                        /\ save_ret' = saved.ret
                        /\ IF saved.ret = "None"
                           THEN \* lines 287-289
                                vis_ret' = "None" /\ vis_file' = vis_file
                           ELSE IF vis_file # "absent" /\ ~ow
                           THEN \* lines 324-327
                                vis_ret' = "None" /\ vis_file' = vis_file
                           ELSE \* cv2.imwrite, lines 329-333
                                vis_ret' = "path" /\ vis_file' = "written"
  /\ UNCHANGED <<regions, bubble_boxes, i, j, merged, first_merge, lvars, ivars>>

(***************************************************************************)
(* fit_text_to_bubble (insert_translated_text.py)                          *)
(*                                                                         *)
(* A string is the sequence of its characters.  The font is the external   *)
(* collaborator (PIL's ImageFont): font.getbbox(s)[2], the width of s, is  *)
(* modelled as the sum of the glyphs' advances, which grow with the size;  *)
(* "i" is a narrow glyph, "W" a wide one, wider than "m".                  *)
(***************************************************************************)
Space == " "
Hyphen == "-"

\* advance of a glyph in sixteenths of the font size
GlyphUnits(c) ==
  CASE c = "i" -> 4
    [] c = "m" -> 14
    [] c = "W" -> 16
    [] c = Hyphen -> 6
    [] OTHER -> 5

GlyphWidth(c, size) == (GlyphUnits(c) * size) \div 16

\* font.getbbox(s)[2]
RECURSIVE TextWidth(_, _)
TextWidth(s, size) ==
  IF s = <<>> THEN 0 ELSE GlyphWidth(Head(s), size) + TextWidth(Tail(s), size)

\* line_height = font.getbbox("Tg")[3] + 4, line 161
LineHeightAt(size) == (size * 5) \div 4 + 4

IsBlank(chunk) == \A k \in 1..Len(chunk) : chunk[k] = Space

\* ---- textwrap.wrap(text, width) with TextWrapper's defaults ----
\* TextWrapper._split: the text cut into runs of non-space and runs of space
RECURSIVE SplitChunks(_, _)
SplitChunks(s, cur) ==
  IF s = <<>> THEN (IF cur = <<>> THEN <<>> ELSE <<cur>>)
  ELSE IF cur = <<>> \/ (Head(s) = Space) = (cur[1] = Space)
       THEN SplitChunks(Tail(s), Append(cur, Head(s)))
       ELSE <<cur>> \o SplitChunks(Tail(s), <<Head(s)>>)

\* the inner loop of _wrap_chunks: chunks are taken while they fit the width
RECURSIVE FillLine(_, _, _, _)
FillLine(chunks, cur_line, cur_len, width) ==
  IF chunks # <<>> /\ cur_len + Len(Head(chunks)) <= width
  THEN FillLine(Tail(chunks), Append(cur_line, Head(chunks)),
                cur_len + Len(Head(chunks)), width)
  ELSE [cur_line |-> cur_line, cur_len |-> cur_len, chunks |-> chunks]

RECURSIVE Concat(_)
Concat(ss) == IF ss = <<>> THEN <<>> ELSE Head(ss) \o Concat(Tail(ss))

\* one turn of the outer loop of _wrap_chunks, and the turns after it
RECURSIVE WrapChunks(_, _, _)
WrapChunks(chunks, width, lines) ==
  IF chunks = <<>> THEN lines
  ELSE
    LET \* drop_whitespace: a blank chunk does not start a line but the first
        c0 == IF IsBlank(Head(chunks)) /\ lines # <<>> THEN Tail(chunks) ELSE chunks
        f == FillLine(c0, <<>>, 0, width)
        \* _handle_long_word with break_long_words: the chunk is cut at the
        \* space left on the line
        long == f.chunks # <<>> /\ Len(Head(f.chunks)) > width
        space_left == IF width < 1 THEN 1 ELSE width - f.cur_len
        line1 == IF long THEN Append(f.cur_line, SubSeq(Head(f.chunks), 1, space_left))
                 ELSE f.cur_line
        rest == IF long
                THEN <<SubSeq(Head(f.chunks), space_left + 1, Len(Head(f.chunks)))>>
                       \o Tail(f.chunks)
                ELSE f.chunks
        \* drop_whitespace: a blank chunk at the end of the line is dropped
        line2 == IF line1 # <<>> /\ IsBlank(line1[Len(line1)])
                 THEN SubSeq(line1, 1, Len(line1) - 1) ELSE line1
    IN WrapChunks(rest, width, IF line2 # <<>> THEN Append(lines, Concat(line2)) ELSE lines)

\* textwrap.wrap: ValueError("invalid width") when width <= 0
TextwrapRaises(width) == width <= 0
TextwrapWrap(s, width) == WrapChunks(SplitChunks(s, <<>>), width, <<>>)

\* str.split(): the words of the text, empty words never occur
Words(s) == LET cs == SplitChunks(s, <<>>)
            IN SelectSeq(cs, LAMBDA c : ~IsBlank(c))

\* int(bubble_width * 0.9 / font.getbbox("m")[2]), line 164; int() rounds
\* towards zero
WrapWidth(bw, size) ==
  IF bw >= 0 THEN (bw * 9) \div (10 * GlyphWidth("m", size))
  ELSE 0 - (((0 - bw) * 9) \div (10 * GlyphWidth("m", size)))

\* font.getbbox(s)[2] <= bubble_width * 0.95, lines 172, 194, 198, 213
FitsWidth(s, size, bw) == 100 * TextWidth(s, size) <= 95 * bw

\* total_height <= bubble_height * 0.95, lines 177, 240
FitsHeight(lines, size, bh) == 100 * (Len(lines) * LineHeightAt(size)) <= 95 * bh

\* a mutant of DrawOps: the lines are left-aligned in the bubble
DrawOpsLeftAligned(x, y, width, height, r) ==
  LET total_text_height == Len(r.lines) * r.line_height
      y_offset == y + (height - total_text_height) \div 2
  IN [k \in 1..Len(r.lines) |->
        [line |-> r.lines[k],
         x_position |-> x,
         y_position |-> y_offset + (k - 1) * r.line_height]]

\* a mutant of LongestFit: the shortest prefix that fits is taken
LongestFitShortest(remaining_word, n, size, bw) ==
  LET fitting == {k \in 1..n :
                    FitsWidth(IF k < Len(remaining_word)
                              THEN Append(SubSeq(remaining_word, 1, k), Hyphen)
                              ELSE SubSeq(remaining_word, 1, k), size, bw)}
  IN IF fitting = {} THEN 0 ELSE SetMin(fitting)

\* for i in range(len(remaining_word), 0, -1): the first i whose segment fits,
\* 0 when none does (lines 208-217)
RECURSIVE LongestFit(_, _, _, _)
LongestFit(remaining_word, n, size, bw) ==
  IF n = 0 THEN 0
  ELSE LET test_segment ==
             IF n < Len(remaining_word)
             THEN Append(SubSeq(remaining_word, 1, n), Hyphen)
             ELSE SubSeq(remaining_word, 1, n)
       IN IF FitsWidth(test_segment, size, bw) THEN n
          ELSE LongestFit(remaining_word, n - 1, size, bw)

\* a mutant of Hyphenate: the character that is force-broken is not emitted
RECURSIVE HyphenateDropForced(_, _, _)
HyphenateDropForced(remaining_word, size, bw) ==
  IF remaining_word = <<>> THEN <<>>
  ELSE LET n == LongestFit(remaining_word, Len(remaining_word), size, bw)
       IN IF n > 0
          THEN <<IF n < Len(remaining_word)
                 THEN Append(SubSeq(remaining_word, 1, n), Hyphen)
                 ELSE remaining_word>>
                 \o HyphenateDropForced(SubSeq(remaining_word, n + 1, Len(remaining_word)),
                                        size, bw)
          ELSE HyphenateDropForced(Tail(remaining_word), size, bw)

\* while remaining_word: ... (lines 205-227); the lines the word is cut into
RECURSIVE Hyphenate(_, _, _)
Hyphenate(remaining_word, size, bw) ==
  IF remaining_word = <<>> THEN <<>>
  ELSE LET n == LongestFit(remaining_word, Len(remaining_word), size, bw)
       IN IF n > 0
          THEN <<IF n < Len(remaining_word)
                 THEN Append(SubSeq(remaining_word, 1, n), Hyphen)
                 ELSE remaining_word>>
                 \o Hyphenate(SubSeq(remaining_word, n + 1, Len(remaining_word)), size, bw)
          \* force break the first character
          ELSE <<<<remaining_word[1]>>>>
                 \o Hyphenate(Tail(remaining_word), size, bw)

\* for word in words: ... (lines 185-236); st is [lines, current_line]
RECURSIVE HyphenWrapFrom(_, _, _, _)
HyphenWrapFrom(words, st, size, bw) ==
  IF words = <<>>
  THEN IF st.current_line # <<>> THEN Append(st.lines, st.current_line) ELSE st.lines
  ELSE
    LET word == Head(words)
        test_line == IF st.current_line # <<>>
                     THEN st.current_line \o <<Space>> \o word ELSE word
        flushed == IF st.current_line # <<>>
                   THEN Append(st.lines, st.current_line) ELSE st.lines
        next ==
          IF FitsWidth(test_line, size, bw)
          THEN [lines |-> st.lines, current_line |-> test_line]
          ELSE IF ~FitsWidth(word, size, bw)
               THEN [lines |-> flushed \o Hyphenate(word, size, bw), current_line |-> <<>>]
               ELSE [lines |-> flushed, current_line |-> word]
    IN HyphenWrapFrom(Tail(words), next, size, bw)

\* step 2 at one size, lines 181-236
HyphenWrap(s, size, bw) ==
  HyphenWrapFrom(Words(s), [lines |-> <<>>, current_line |-> <<>>], size, bw)

\* ---- the same logic once more after the scan, lines 248-295 ----
RECURSIVE FallbackLongestFit(_, _, _, _)
FallbackLongestFit(remaining_word, n, size, bw) ==
  IF n = 0 THEN 0
  ELSE LET test_segment ==
             IF n < Len(remaining_word)
             THEN Append(SubSeq(remaining_word, 1, n), Hyphen)
             ELSE SubSeq(remaining_word, 1, n)
       IN IF FitsWidth(test_segment, size, bw) THEN n
          ELSE FallbackLongestFit(remaining_word, n - 1, size, bw)

RECURSIVE FallbackHyphenate(_, _, _)
FallbackHyphenate(remaining_word, size, bw) ==
  IF remaining_word = <<>> THEN <<>>
  ELSE LET n == FallbackLongestFit(remaining_word, Len(remaining_word), size, bw)
       IN IF n > 0
          THEN <<IF n < Len(remaining_word)
                 THEN Append(SubSeq(remaining_word, 1, n), Hyphen)
                 ELSE remaining_word>>
                 \o FallbackHyphenate(SubSeq(remaining_word, n + 1, Len(remaining_word)), size, bw)
          ELSE <<<<remaining_word[1]>>>>
                 \o FallbackHyphenate(Tail(remaining_word), size, bw)

RECURSIVE FallbackWrapFrom(_, _, _, _)
FallbackWrapFrom(words, st, size, bw) ==
  IF words = <<>>
  THEN IF st.current_line # <<>> THEN Append(st.lines, st.current_line) ELSE st.lines
  ELSE
    LET word == Head(words)
        test_line == IF st.current_line # <<>>
                     THEN st.current_line \o <<Space>> \o word ELSE word
        flushed == IF st.current_line # <<>>
                   THEN Append(st.lines, st.current_line) ELSE st.lines
        next ==
          IF FitsWidth(test_line, size, bw)
          THEN [lines |-> st.lines, current_line |-> test_line]
          ELSE IF ~FitsWidth(word, size, bw)
               THEN [lines |-> flushed \o FallbackHyphenate(word, size, bw),
                     current_line |-> <<>>]
               ELSE [lines |-> flushed, current_line |-> word]
    IN FallbackWrapFrom(Tail(words), next, size, bw)

FallbackWrap(s, size, bw) ==
  FallbackWrapFrom(Words(s), [lines |-> <<>>, current_line |-> <<>>], size, bw)

\* ---- the font-size scan ----
Returned(size, lines, site) ==
  [kind |-> "return", font |-> size, lines |-> lines,
   line_height |-> LineHeightAt(size), site |-> site]
Raised(error) ==
  [kind |-> error, font |-> 0, lines |-> <<>>, line_height |-> 0, site |-> "step1"]
NoReturn == [kind |-> "none", font |-> 0, lines |-> <<>>, line_height |-> 0, site |-> "none"]

\* the body of "for test_size in range(...)" at one size, lines 160-241:
\* a return, an exception, or kind "none" when the loop goes on
ScanBody(s, bw, bh, size) ==
  IF TextwrapRaises(WrapWidth(bw, size)) THEN Raised("ValueError")
  ELSE LET lines1 == TextwrapWrap(s, WrapWidth(bw, size))
           all_lines_fit == \A k \in 1..Len(lines1) : FitsWidth(lines1[k], size, bw)
       IN IF all_lines_fit /\ FitsHeight(lines1, size, bh)
          THEN Returned(size, lines1, "step1")
          ELSE LET lines2 == HyphenWrap(s, size, bw)
               IN IF FitsHeight(lines2, size, bh)
                  THEN Returned(size, lines2, "step2")
                  ELSE NoReturn

\* the texts: characters "i", "W" and spaces, stripped as the callers strip
\* them, and not empty
Texts ==
  UNION {{t \in [1..n -> {"i", "W", Space}] : t[1] # Space /\ t[n] # Space} :
           n \in 1..MaxTextLen}
BubbleWidths == {5, 64, 150}
BubbleHeights == {10, 50, 200}
\* the --font-size values of the command line
CliFontSizes == {FONT_SIZE, 40}

NoCall == [bubble_width |-> 0, ret |-> NoReturn]

\* step 2 has not started: lines = [], current_line = ""
NoLocals == [lines |-> <<>>, words |-> <<>>, current_line |-> <<>>, remaining_word |-> <<>>]

LayoutIdle ==
  /\ text = <<>>
  /\ bubble_width = 0 /\ bubble_height = 0
  /\ font_size = 0
  /\ lpc = "idle"
  /\ test_size = 0
  /\ ret = NoReturn
  /\ fit_calls = 0
  /\ first_call = NoCall
  /\ locals = NoLocals

BubbleIdle ==
  /\ regions = <<>>
  /\ pc = "idle"
  /\ bubble_groups = <<>>
  /\ bubble_boxes = <<>>
  /\ i = 0 /\ j = 0 /\ merged = FALSE
  /\ merge_arg = <<>>
  /\ merge_calls = 0
  /\ first_merge = <<>>
  /\ max_bubbles = 0
  /\ filter_arg = <<>>
  /\ filter_out = NoResult
  /\ SaveIdle

\* no image is being processed
NoImageResult == [caller |-> "none", kind |-> "none", value |-> FALSE, saved |-> FALSE]

ImageIdle ==
  /\ bubbles = <<>>
  /\ translations = <<>>
  /\ cli_font_size = FONT_SIZE
  /\ ipc = "idle"
  /\ bubble_index = 0
  /\ bubbles_processed = 0
  /\ drawn = <<>>
  /\ conditions = <<>>
  /\ image_ret = NoImageResult
  /\ SUCCESS_COUNT = 0 /\ FAILURE_COUNT = 0 /\ WARNING_COUNT = 0

\* a caller is about to call fit_text_to_bubble(draw, text, font_path, width,
\* height, max_size) with max_size = min(font_size, 32), lines 345-348, 529-532
LayoutInit ==
  /\ text \in Texts
  /\ bubble_width \in BubbleWidths
  /\ bubble_height \in BubbleHeights
  /\ font_size \in {Min2(fs, CallerCap) : fs \in CliFontSizes}
  /\ lpc = "call"
  /\ test_size = 0
  /\ ret = NoReturn
  /\ fit_calls = 0
  /\ first_call = NoCall
  /\ locals = NoLocals

\* a mutant of FitCall: a later call goes on from the size the call before
\* it stopped at
FitCallStale ==
  /\ lpc = "call"
  /\ test_size' = IF fit_calls = 0 THEN max_font_size ELSE test_size
  /\ lpc' = "scan"
  /\ fit_calls' = fit_calls + 1
  /\ UNCHANGED <<text, bubble_width, bubble_height, font_size, ret, first_call,
                 locals, bvars, ivars>>

\* entry of the function and start of the scan, lines 155-159
FitCall ==
  /\ lpc = "call"
  /\ test_size' = max_font_size
  /\ lpc' = "scan"
  /\ fit_calls' = fit_calls + 1
  /\ UNCHANGED <<text, bubble_width, bubble_height, font_size, ret, first_call,
                 locals, bvars, ivars>>

\* a mutant of ScanNext: the scan goes down two sizes at a time
ScanNextSkipping(size) == size - 2

\* the next size of range(max_font_size, min_font_size - 1, -1)
ScanNext(size) == size - 1

\* one turn of the scan, lines 159-241
ScanStep ==
  /\ lpc = "scan"
  /\ test_size >= min_font_size
  /\ \E r \in {ScanBody(text, bubble_width, bubble_height, test_size)} :
        /\ ret' = r
        /\ lpc' = IF r.kind = "return" THEN "returned"
                  ELSE IF r.kind = "none" THEN "scan" ELSE "raised"
        /\ test_size' = IF r.kind = "none" THEN ScanNext(test_size) ELSE test_size
  /\ UNCHANGED <<text, bubble_width, bubble_height, font_size, fit_calls, first_call,
                 locals, bvars, ivars>>

\* the scan is exhausted: the smallest size with hyphenation, lines 243-297
Fallback ==
  /\ lpc = "scan"
  /\ test_size < min_font_size
  /\ ret' = Returned(min_font_size, FallbackWrap(text, min_font_size, bubble_width), "fallback")
  /\ lpc' = "returned"
  /\ UNCHANGED <<text, bubble_width, bubble_height, font_size, test_size, fit_calls,
                 first_call, locals, bvars, ivars>>

\* the width after w in BubbleWidths, the smallest one after the largest
NextWidth(w) ==
  IF w = SetMax(BubbleWidths) THEN SetMin(BubbleWidths)
  ELSE SetMin({v \in BubbleWidths : v > w})

\* The caller's loop goes on to its next bubble and calls fit_text_to_bubble
\* once more (lines 494, 529-532): the bubble has the same text and height,
\* and the same width or another one.  A call that raised was counted as a
\* warning (lines 560-565).
CallAgain ==
  /\ lpc \in {"returned", "raised"}
  /\ fit_calls = 1
  /\ first_call' = [bubble_width |-> bubble_width, ret |-> ret]
  /\ bubble_width' \in {bubble_width, NextWidth(bubble_width)}
  /\ lpc' = "call"
  /\ WARNING_COUNT' = IF lpc = "raised" THEN WARNING_COUNT + 1 ELSE WARNING_COUNT
  /\ UNCHANGED <<text, bubble_height, font_size, test_size, ret, fit_calls, locals, bvars,
                 bubbles, translations, cli_font_size, ipc, bubble_index,
                 bubbles_processed, drawn, conditions, image_ret, SUCCESS_COUNT,
                 FAILURE_COUNT>>

LayoutNext == FitCall \/ ScanStep \/ Fallback \/ CallAgain

\* the call as a whole: the scan from max_font_size down, then the fallback
RECURSIVE FitScan(_, _, _, _)
FitScan(s, bw, bh, size) ==
  IF size < min_font_size
  THEN Returned(min_font_size, FallbackWrap(s, min_font_size, bw), "fallback")
  ELSE LET r == ScanBody(s, bw, bh, size)
       IN IF r.kind = "none" THEN FitScan(s, bw, bh, ScanNext(size)) ELSE r

\* what fit_text_to_bubble(draw, text, font_path, bubble_width, bubble_height,
\* font_size) returns or raises; font_size is never read (lines 155-159)
fit_text_to_bubble(s, bw, bh, fs) == FitScan(s, bw, bh, max_font_size)

(***************************************************************************)
(* fit_text_to_bubble statement by statement: step 1 in one step, then the *)
(* word loop and the hyphenation loop of step 2 one turn at a time.  The   *)
(* code after the scan (lines 243-297) is the same loops at the smallest   *)
(* size; there test_size is below min_font_size.                           *)
(***************************************************************************)
\* the size of the font the loops measure with
StepSize == IF test_size < min_font_size THEN min_font_size ELSE test_size

\* lines = []; words = text.split(); current_line = "", lines 181-183, 248-250
StartLocals == [NoLocals EXCEPT !.words = Words(text)]

\* lines 160-183 at test_size: step 1 returns or raises, or step 2 starts
Step1 ==
  /\ lpc = "scan"
  /\ test_size >= min_font_size
  /\ IF TextwrapRaises(WrapWidth(bubble_width, test_size))
     THEN ret' = Raised("ValueError") /\ lpc' = "raised" /\ UNCHANGED locals
     ELSE LET lines1 == TextwrapWrap(text, WrapWidth(bubble_width, test_size))
              all_lines_fit ==
                \A k \in 1..Len(lines1) : FitsWidth(lines1[k], test_size, bubble_width)
          IN IF all_lines_fit /\ FitsHeight(lines1, test_size, bubble_height)
             THEN /\ ret' = Returned(test_size, lines1, "step1")
                  /\ lpc' = "returned"
                  /\ UNCHANGED locals
             ELSE /\ locals' = StartLocals
                  /\ lpc' = "words"
                  /\ UNCHANGED ret
  /\ UNCHANGED <<text, bubble_width, bubble_height, font_size, test_size, fit_calls,
                 first_call, bvars, ivars>>

\* the scan is exhausted: the loops start once more, lines 243-250
StartFallback ==
  /\ lpc = "scan"
  /\ test_size < min_font_size
  /\ locals' = StartLocals
  /\ lpc' = "words"
  /\ UNCHANGED <<text, bubble_width, bubble_height, font_size, test_size, ret, fit_calls,
                 first_call, bvars, ivars>>

\* one turn of "for word in words", lines 185-232 and 252-292, up to the
\* start of the hyphenation loop when the word is wider than the budget
WordTurn ==
  /\ lpc = "words"
  /\ locals.words # <<>>
  /\ LET word == Head(locals.words)
         test_line == IF locals.current_line # <<>>
                      THEN locals.current_line \o <<Space>> \o word ELSE word
         flushed == IF locals.current_line # <<>>
                    THEN Append(locals.lines, locals.current_line) ELSE locals.lines
     IN IF FitsWidth(test_line, StepSize, bubble_width)
        THEN /\ locals' = [locals EXCEPT !.current_line = test_line, !.words = Tail(@)]
             /\ lpc' = "words"
        ELSE IF ~FitsWidth(word, StepSize, bubble_width)
             THEN /\ locals' = [locals EXCEPT !.lines = flushed, !.current_line = <<>>,
                                              !.remaining_word = word, !.words = Tail(@)]
                  /\ lpc' = "hyphenate"
             ELSE /\ locals' = [locals EXCEPT !.lines = flushed, !.current_line = word,
                                              !.words = Tail(@)]
                  /\ lpc' = "words"
  /\ UNCHANGED <<text, bubble_width, bubble_height, font_size, test_size, ret, fit_calls,
                 first_call, bvars, ivars>>

\* a mutant of HyphenTurnOf: when no prefix fits the first character is
\* emitted but not cut off
HyphenTurnOfNoForce(l, size, bw) ==
  LET n == LongestFit(l.remaining_word, Len(l.remaining_word), size, bw)
  IN IF n > 0
     THEN [l EXCEPT
             !.lines = Append(@, IF n < Len(l.remaining_word)
                                 THEN Append(SubSeq(l.remaining_word, 1, n), Hyphen)
                                 ELSE l.remaining_word),
             !.remaining_word = SubSeq(@, n + 1, Len(@))]
     ELSE [l EXCEPT !.lines = Append(@, <<l.remaining_word[1]>>)]

\* one turn of "while remaining_word", lines 206-227 and 268-288
HyphenTurnOf(l, size, bw) ==
  LET n == LongestFit(l.remaining_word, Len(l.remaining_word), size, bw)
  IN IF n > 0
     THEN [l EXCEPT
             !.lines = Append(@, IF n < Len(l.remaining_word)
                                 THEN Append(SubSeq(l.remaining_word, 1, n), Hyphen)
                                 ELSE l.remaining_word),
             !.remaining_word = SubSeq(@, n + 1, Len(@))]
     \* not found_fit: force break the first character
     ELSE [l EXCEPT !.lines = Append(@, <<l.remaining_word[1]>>),
                    !.remaining_word = Tail(@)]

HyphenTurn ==
  /\ lpc = "hyphenate"
  /\ locals' = HyphenTurnOf(locals, StepSize, bubble_width)
  \* "while remaining_word" ends when nothing remains
  /\ lpc' = IF locals'.remaining_word = <<>> THEN "words" ELSE "hyphenate"
  /\ UNCHANGED <<text, bubble_width, bubble_height, font_size, test_size, ret, fit_calls,
                 first_call, bvars, ivars>>

\* after the word loop, lines 234-241 and 294-297: the last line is added; in
\* the scan the block's height is checked, after the scan it is not
EndOfWords ==
  /\ lpc = "words"
  /\ locals.words = <<>>
  /\ LET lines2 == IF locals.current_line # <<>>
                   THEN Append(locals.lines, locals.current_line) ELSE locals.lines
     IN /\ locals' = [locals EXCEPT !.lines = lines2]
        /\ IF test_size < min_font_size
           THEN /\ ret' = Returned(min_font_size, lines2, "fallback")
                /\ lpc' = "returned"
                /\ UNCHANGED test_size
           ELSE IF FitsHeight(lines2, test_size, bubble_height)
                THEN /\ ret' = Returned(test_size, lines2, "step2")
                     /\ lpc' = "returned"
                     /\ UNCHANGED test_size
                ELSE /\ test_size' = ScanNext(test_size)
                     /\ lpc' = "scan"
                     /\ UNCHANGED ret
  /\ UNCHANGED <<text, bubble_width, bubble_height, font_size, fit_calls, first_call,
                 bvars, ivars>>

StepNext == FitCall \/ Step1 \/ StartFallback \/ WordTurn \/ HyphenTurn \/ EndOfWords

(***************************************************************************)
(* The callers of fit_text_to_bubble: process_all_bubbles_in_image and     *)
(* add_text_to_bubble.  A bubble record is a dict read from the            *)
(* final-bounds file; a record lacking a key is a record without that      *)
(* field.                                                                  *)
(***************************************************************************)
\* dict.get(key, default)
Get(bubble, key, default) == IF key \in DOMAIN bubble THEN bubble[key] ELSE default

\* str.strip()
RECURSIVE Strip(_)
Strip(s) ==
  IF s = <<>> THEN s
  ELSE IF Head(s) = Space THEN Strip(Tail(s))
  ELSE IF s[Len(s)] = Space THEN Strip(SubSeq(s, 1, Len(s) - 1))
  ELSE s

\* the bubble records: two well-formed ones (the second takes the text on two
\* lines, with odd margins), records with a width or a height that is not
\* positive, and records lacking a geometry key
BubbleRecords ==
  {[x |-> 10, y |-> 20, width |-> 150, height |-> 200],
   [x |-> 10, y |-> 20, width |-> 75, height |-> 201],
   [x |-> 10, y |-> 20, width |-> 0, height |-> 200],
   [x |-> 10, y |-> 20, width |-> 150, height |-> 0],
   [x |-> 10, y |-> 20, width |-> 150, height |-> 0 - 4],
   [x |-> 10, y |-> 20, height |-> 200],
   [y |-> 20, width |-> 150, height |-> 200]}

\* what get_translated_text gives: nothing (None or ""), blanks only, a text
ImageTexts == {<<>>, <<Space>>, <<Space, "W", "i", Space>>}

ImageInit ==
  /\ \E n \in 1..MaxRecords :
       /\ bubbles \in [1..n -> BubbleRecords]
       /\ translations \in [1..n -> ImageTexts]
  /\ cli_font_size \in CliFontSizes
  /\ ipc = "start"
  /\ bubble_index = 0
  /\ bubbles_processed = 0
  /\ drawn = <<>>
  /\ conditions = <<>>
  /\ image_ret = NoImageResult
  /\ SUCCESS_COUNT = 0 /\ FAILURE_COUNT = 0 /\ WARNING_COUNT = 0

\* the draw.text calls for one bubble, lines 353-367 and 538-553: the block
\* is centered vertically, each line horizontally (// is floor division)
DrawOps(x, y, width, height, r) ==
  LET total_text_height == Len(r.lines) * r.line_height
      y_offset == y + (height - total_text_height) \div 2
  IN [k \in 1..Len(r.lines) |->
        [line |-> r.lines[k],
         x_position |-> x + (width - TextWidth(r.lines[k], r.font)) \div 2,
         y_position |-> y_offset + (k - 1) * r.line_height]]

Report(idx, what) == [bubble |-> idx, condition |-> what]

\* Image.open and ImageDraw.Draw, lines 479-491; an image that cannot be
\* opened ends the call in the outer handler, lines 582-588
OpenImage ==
  /\ ipc = "start"
  /\ \E opened \in BOOLEAN :
       IF opened
       THEN /\ ipc' = "loop"
            /\ UNCHANGED <<image_ret, FAILURE_COUNT>>
       ELSE /\ ipc' = "done"
            /\ image_ret' = [caller |-> "process_all_bubbles_in_image", kind |-> "return",
                             value |-> FALSE, saved |-> FALSE]
            /\ FAILURE_COUNT' = FAILURE_COUNT + 1
  /\ bubble_index' = 0
  /\ bubbles_processed' = 0
  /\ UNCHANGED <<bubbles, translations, cli_font_size, drawn, conditions,
                 SUCCESS_COUNT, WARNING_COUNT, bvars, lvars>>

\* what one turn of "for bubble_index, bubble in enumerate(bubbles)" does with
\* its bubble, lines 494-565: a condition reported, or the layout to draw
BubbleOutcome(bubble, translated_text, fs) ==
  LET x == Get(bubble, "x", 0)
      y == Get(bubble, "y", 0)
      width == Get(bubble, "width", 0)
      height == Get(bubble, "height", 0)
      stripped == Strip(translated_text)
  IN IF translated_text = <<>> THEN [condition |-> "no_translated_text", ops |-> <<>>, font |-> 0]
     ELSE IF width <= 0 \/ height <= 0
          THEN [condition |-> "invalid_dimensions", ops |-> <<>>, font |-> 0]
     ELSE IF stripped = <<>> THEN [condition |-> "empty_text", ops |-> <<>>, font |-> 0]
     ELSE LET r == fit_text_to_bubble(stripped, width, height, Min2(fs, CallerCap))
          IN IF r.kind = "return"
             THEN [condition |-> "added", ops |-> DrawOps(x, y, width, height, r),
                   font |-> r.font]
             ELSE [condition |-> "error", ops |-> <<>>, font |-> 0]

\* one turn of the loop over the bubbles, lines 494-565
ProcessBubble ==
  /\ ipc = "loop"
  /\ bubble_index < Len(bubbles)
  /\ \E o \in {BubbleOutcome(bubbles[bubble_index + 1], translations[bubble_index + 1],
                              cli_font_size)} :
       /\ conditions' = Append(conditions, Report(bubble_index, o.condition))
       /\ IF o.condition = "added"
          THEN /\ drawn' = Append(drawn, [bubble |-> bubble_index, font |-> o.font,
                                          ops |-> o.ops])
               /\ bubbles_processed' = bubbles_processed + 1
               /\ UNCHANGED WARNING_COUNT
          ELSE /\ WARNING_COUNT' = WARNING_COUNT + 1
               /\ UNCHANGED <<drawn, bubbles_processed>>
  /\ bubble_index' = bubble_index + 1
  /\ UNCHANGED <<bubbles, translations, cli_font_size, ipc, image_ret, SUCCESS_COUNT,
                 FAILURE_COUNT, bvars, lvars>>

\* a mutant of FinishImage: a saved image counts as a success whatever was drawn
FinishImageSuccessOnSave ==
  /\ ipc = "loop"
  /\ bubble_index = Len(bubbles)
  /\ \E saved \in BOOLEAN :
       /\ image_ret' = [caller |-> "process_all_bubbles_in_image", kind |-> "return",
                        value |-> saved /\ bubbles_processed > 0, saved |-> saved]
       /\ SUCCESS_COUNT' = IF saved THEN SUCCESS_COUNT + 1 ELSE SUCCESS_COUNT
       /\ FAILURE_COUNT' = IF saved THEN FAILURE_COUNT ELSE FAILURE_COUNT + 1
  /\ ipc' = "done"
  /\ UNCHANGED <<bubbles, translations, cli_font_size, bubble_index, bubbles_processed,
                 drawn, conditions, WARNING_COUNT, bvars, lvars>>

\* after the loop, lines 570-588: img.save, the counters and the return value;
\* a save that fails ends the call in the outer handler
FinishImage ==
  /\ ipc = "loop"
  /\ bubble_index = Len(bubbles)
  /\ \E saved \in BOOLEAN :
       /\ image_ret' = [caller |-> "process_all_bubbles_in_image", kind |-> "return",
                        value |-> saved /\ bubbles_processed > 0, saved |-> saved]
       /\ SUCCESS_COUNT' = IF saved /\ bubbles_processed > 0
                           THEN SUCCESS_COUNT + 1 ELSE SUCCESS_COUNT
       /\ FAILURE_COUNT' = IF saved /\ bubbles_processed > 0
                           THEN FAILURE_COUNT ELSE FAILURE_COUNT + 1
  /\ ipc' = "done"
  /\ UNCHANGED <<bubbles, translations, cli_font_size, bubble_index, bubbles_processed,
                 drawn, conditions, WARNING_COUNT, bvars, lvars>>

\* what add_text_to_bubble does with bubble number idx of the file and the
\* text it is given, lines 317-382
AddTextOutcome(opened, idx, given_text, fs) ==
  LET bubble == IF idx < Len(bubbles) THEN bubbles[idx + 1] ELSE bubbles[1]
      stripped == Strip(given_text)
  IN \* Image.open raises: caught by "except Exception"
     IF ~opened THEN [condition |-> "error", ops |-> <<>>, font |-> 0]
     ELSE IF Len(bubbles) = 0 THEN [condition |-> "no_bounds", ops |-> <<>>, font |-> 0]
     \* bubble['x'], ...: KeyError, caught by "except Exception"
     ELSE IF ~({"x", "y", "width", "height"} \subseteq DOMAIN bubble)
          THEN [condition |-> "error", ops |-> <<>>, font |-> 0]
     ELSE LET r == fit_text_to_bubble(stripped, bubble.width, bubble.height,
                                      Min2(fs, CallerCap))
          IN IF r.kind = "return"
             THEN [condition |-> "added",
                   ops |-> DrawOps(bubble.x, bubble.y, bubble.width, bubble.height, r),
                   font |-> r.font]
             ELSE [condition |-> "error", ops |-> <<>>, font |-> 0]

\* a call of add_text_to_bubble(blank_bubble_path, text, output_path, ...,
\* font_size, bubble_index), lines 300-382
AddTextToBubble ==
  /\ ipc = "start"
  /\ \E idx \in 0..Len(bubbles), opened \in BOOLEAN :
       /\ bubble_index' = idx
       /\ \E o \in {AddTextOutcome(opened, idx, translations[1], cli_font_size)} :
            /\ conditions' = <<Report(IF idx < Len(bubbles) THEN idx ELSE 0, o.condition)>>
            /\ drawn' = IF o.condition = "added"
                        THEN <<[bubble |-> IF idx < Len(bubbles) THEN idx ELSE 0,
                                font |-> o.font, ops |-> o.ops]>>
                        ELSE <<>>
            /\ image_ret' = [caller |-> "add_text_to_bubble", kind |-> "return",
                             value |-> o.condition = "added",
                             saved |-> o.condition = "added"]
  /\ ipc' = "done"
  /\ UNCHANGED <<bubbles, translations, cli_font_size, bubbles_processed,
                 SUCCESS_COUNT, FAILURE_COUNT, WARNING_COUNT, bvars, lvars>>

ImageNext == OpenImage \/ ProcessBubble \/ FinishImage \/ AddTextToBubble

\* the callers at work on one image; no other call is under way
ImageSpecInit == BubbleIdle /\ LayoutIdle /\ ImageInit
ImageSpec == ImageSpecInit /\ [][ImageNext]_vars

\* calls of fit_text_to_bubble; the bubble pipeline is not running
LayoutSpecInit == BubbleIdle /\ LayoutInit /\ ImageIdle
LayoutSpec == LayoutSpecInit /\ [][LayoutNext]_vars

\* one call of fit_text_to_bubble, statement by statement
StepSpec == LayoutSpecInit /\ [][StepNext]_vars

\* one run of visualize_speech_bubbles on an input and the files it finds
PipelineSpecInit == PipelineInit /\ LayoutIdle /\ ImageIdle
PipelineSpec == PipelineSpecInit /\ [][VisualizeSpeechBubbles]_vars

\* the bubble pipeline of visualize_bounds.py; no layout call is under way
Init == BubbleInit /\ LayoutIdle /\ ImageIdle
Spec == Init /\ [][BubbleNext]_vars

(***************************************************************************)
(* Claims about the bubble pipeline.  The claims' own notion of a group's  *)
(* rectangle and of overlap is stated here, apart from the code's.         *)
(***************************************************************************)
\* smallest axis-aligned rectangle containing every fragment of a set
RectOf(frags) ==
  [minX |-> SetMin({f.x : f \in frags}), maxX |-> SetMax({f.x + f.width : f \in frags}),
   minY |-> SetMin({f.y : f \in frags}), maxY |-> SetMax({f.y + f.height : f \in frags})]

\* strict overlap: rectangles that only touch do not overlap
RectsOverlap(a, b) ==
  a.minX < b.maxX /\ a.maxX > b.minX /\ a.minY < b.maxY /\ a.maxY > b.minY

RectArea(r) == (r.maxX - r.minX) * (r.maxY - r.minY)

\* a list of groups as a set of sets of fragments
PartitionOf(groups) == {Range(groups[k]) : k \in 1..Len(groups)}

\* the first call of merge_overlapping_bubbles, on the clustering of regions, has returned
MergedOnce == pc = "return" /\ merge_calls = 1

\* C1 (partition totality): after group_text_regions_by_distance and then
\* merge_overlapping_bubbles on a non-empty list of fragments, (a) every input
\* fragment occurs in exactly one output group, exactly once, and no other
\* fragment occurs, and (b) the bounding rectangles of two distinct output
\* groups never overlap (strictly).
C1_PartitionTotality ==
  (MergedOnce /\ Len(regions) > 0) =>
    /\ \A r \in Range(regions) :
         Cardinality({<<g, k>> \in (1..Len(bubble_groups)) \X (1..Len(regions)) :
                        k <= Len(bubble_groups[g]) /\ bubble_groups[g][k] = r}) = 1
    /\ \A g \in 1..Len(bubble_groups) : Range(bubble_groups[g]) \subseteq Range(regions)
    /\ \A g \in 1..Len(bubble_groups) : Len(bubble_groups[g]) > 0
    /\ \A g, h \in 1..Len(bubble_groups) :
         g # h => ~RectsOverlap(RectOf(Range(bubble_groups[g])), RectOf(Range(bubble_groups[h])))

\* C1's case: three clusters, two of which overlapped and were merged, and a
\* group that stayed apart
C1_Witness ==
  /\ MergedOnce
  /\ Len(merge_arg) = 3
  /\ Len(bubble_groups) = 2
  /\ \E g \in 1..2 : Len(bubble_groups[g]) = 2

\* every final partition reachable by merging any overlapping pair of a set
\* of groups into their union until no pair overlaps
RECURSIVE AnyOrderFinals(_)
AnyOrderFinals(Q) ==
  LET pairs == {p \in Q \X Q : p[1] # p[2] /\ RectsOverlap(RectOf(p[1]), RectOf(p[2]))}
  IN IF pairs = {} THEN {Q}
     ELSE UNION {AnyOrderFinals((Q \ {p[1], p[2]}) \cup {p[1] \cup p[2]}) : p \in pairs}

PermutedLists(s) == {[k \in 1..Len(s) |-> s[p[k]]] : p \in Permutations(1..Len(s))}

\* C6 (merge order-independence): merging any overlapping pair into its union
\* rectangle until no pair overlaps ends in one and the same partition of the
\* fragments whatever the order the pairs are chosen in, and
\* merge_overlapping_bubbles returns that partition for every permutation of
\* its input list.
C6_OrderIndependence ==
  pc = "return" =>
    /\ AnyOrderFinals(PartitionOf(merge_arg)) = {PartitionOf(bubble_groups)}
    /\ \A perm \in PermutedLists(merge_arg) :
         PartitionOf(merge_overlapping_bubbles(perm)) = PartitionOf(bubble_groups)

\* C6's case: three input groups, some pair of them not overlapping, merged
\* into one group, so that the order of the merges could have mattered
C6_Witness ==
  /\ pc = "return"
  /\ Len(merge_arg) = 3
  /\ Len(bubble_groups) = 1
  /\ \E a, b \in 1..3 :
       a # b /\ ~RectsOverlap(RectOf(Range(merge_arg[a])), RectOf(Range(merge_arg[b])))

\* input groups a and b overlap as given to the function
InputOverlap(a, b) ==
  RectsOverlap(RectOf(Range(merge_arg[a])), RectOf(Range(merge_arg[b])))

\* the input groups linked to those of S by a chain of overlapping input boxes
RECURSIVE ChainFrom(_)
ChainFrom(S) ==
  LET T == S \cup {b \in 1..Len(merge_arg) : \E a \in S : InputOverlap(a, b)}
  IN IF T = S THEN S ELSE ChainFrom(T)

\* input groups a and b ended up in the same output group
SameOutputGroup(a, b) ==
  \E g \in 1..Len(bubble_groups) :
    Range(merge_arg[a]) \cup Range(merge_arg[b]) \subseteq Range(bubble_groups[g])

\* C7 as stated: the output groups are the connected components of the
\* overlap graph of the input: same output group if and only if chain-linked.
C7_ConnectedComponents ==
  pc = "return" =>
    \A a, b \in 1..Len(merge_arg) : SameOutputGroup(a, b) <=> b \in ChainFrom({a})

\* C7 as amended: input groups linked by a chain of overlapping input boxes end
\* up in the same output group (the converse fails: the union rectangle of
\* merged groups can overlap an input group none of their boxes overlaps).
C7_ChainImpliesSameGroup ==
  pc = "return" =>
    \A a, b \in 1..Len(merge_arg) : b \in ChainFrom({a}) => SameOutputGroup(a, b)

\* C7's case: two input groups that do not overlap each other are joined
\* through a third one overlapping both
C7_Witness ==
  /\ pc = "return"
  /\ \E a, b \in 1..Len(merge_arg) :
       a # b /\ ~InputOverlap(a, b) /\ b \in ChainFrom({a}) /\ SameOutputGroup(a, b)

\* C8 (merge idempotence): merge_overlapping_bubbles applied to the list it
\* returned gives the same groups in the same order with the same members.
C8_MergeIdempotent ==
  (pc = "return" /\ merge_calls = 2) => bubble_groups = first_merge

\* C8's case: the first call merged something and left two groups, and the
\* second call has returned
C8_Witness ==
  /\ pc = "return" /\ merge_calls = 2
  /\ Len(first_merge) = 2
  /\ Len(regions) = 3
  /\ \A g \in 1..Len(regions) : Reach({g}, [k \in 1..Len(regions) |-> Center(regions[k])],
                                     CLUSTERING_EPS, VERTICAL_WEIGHT_Q, HORIZONTAL_PENALTY_Q) = {g}

\* area of the union rectangle of a group's fragments
GroupArea(group) == RectArea(RectOf(Range(group)))

\* C9 as stated: when len(groups) > max_count, filter_and_prioritize_bubbles
\* returns exactly max_count groups of its input, in descending order of
\* bounding-box area, and every kept group's area is >= every dropped group's.
C9_KeepsLargest ==
  (pc = "filtered" /\ Len(filter_arg) > max_bubbles) =>
    /\ filter_out.kind = "return"
    /\ Len(filter_out.value) = max_bubbles
    /\ Range(filter_out.value) \subseteq Range(filter_arg)
    /\ \A k \in 1..(Len(filter_out.value) - 1) :
         GroupArea(filter_out.value[k]) >= GroupArea(filter_out.value[k + 1])
    /\ \A kept \in Range(filter_out.value) :
         \A dropped \in Range(filter_arg) \ Range(filter_out.value) :
           GroupArea(kept) >= GroupArea(dropped)

\* C10: when len(groups) <= max_count, filter_and_prioritize_bubbles returns
\* the same groups in their original order, nothing added, dropped, reordered
\* or changed, whatever their areas.
C10_UnchangedWithinLimit ==
  (pc = "filtered" /\ Len(filter_arg) <= max_bubbles) =>
    filter_out = [kind |-> "return", value |-> filter_arg]

\* C10's case: as many groups as max_count allows, not in descending order of
\* area, returned as they were
C10_Witness ==
  /\ pc = "filtered"
  /\ Len(filter_arg) = max_bubbles
  /\ Len(filter_arg) >= 2
  /\ GroupArea(filter_arg[1]) < GroupArea(filter_arg[2])
  /\ filter_out.kind = "return"

\* the texts of a group's first n fragments with one space between neighbours
RECURSIVE SpaceJoined(_, _)
SpaceJoined(group, n) ==
  IF n = 1 THEN group[1].text
  ELSE SpaceJoined(group, n - 1) \o " " \o group[n].text

\* C16 (persisted record): the k-th bubble written by save_final_bounds has
\* bubble_number k (numbers 1..n, no gap, no repeat), x/y the minimum
\* fragment x/y of group k, width/height max(x+width) - min(x) and
\* max(y+height) - min(y) over its fragments, text the fragments' texts joined
\* by exactly one space in member order, and text_regions the group's
\* fragments in member order.
C16_PersistedRecord ==
  (pc = "saved" /\ save_ret = "path") =>
    /\ Len(final_file.bubbles) = Len(filter_out.value)
    /\ \A k \in 1..Len(final_file.bubbles) :
         LET rec == final_file.bubbles[k]
             group == filter_out.value[k]
             rect == RectOf(Range(group))
         IN /\ rec.bubble_number = k
            /\ rec.x = rect.minX /\ rec.y = rect.minY
            /\ rec.width = rect.maxX - rect.minX
            /\ rec.height = rect.maxY - rect.minY
            /\ rec.text = SpaceJoined(group, Len(group))
            /\ Len(rec.text) = 2 * Len(group) - 1
            /\ rec.text_regions = group

\* C16's case: two groups written, one of them of two fragments
C16_Witness ==
  /\ pc = "saved" /\ save_ret = "path"
  /\ Len(final_file.bubbles) = 2
  /\ \E k \in 1..2 : Len(final_file.bubbles[k].text_regions) = 2

\* C17 as stated: after merge_overlapping_bubbles or
\* filter_and_prioritize_bubbles returns, the list object the caller passed in
\* has the same length and the same groups, and every input group's fragment
\* list has the same members in the same order as before the call.  (The
\* merge works on the caller's list object itself, which bubble_groups is;
\* merge_arg and filter_arg are its value at the call.)
C17_InputUntouched ==
  /\ pc = "return" => bubble_groups = merge_arg
  /\ pc = "filtered" => bubble_groups = filter_arg

\* center of a fragment: (x + width div 2, y + height div 2)
CentreOf(f) == [cx |-> f.x + f.width \div 2, cy |-> f.y + f.height \div 2]

\* the transformed centers (cx * 3/4, cy * 3/2) of fragments f and g are at
\* Euclidean distance <= eps: (3 dx / 4)^2 + (3 dy / 2)^2 <= eps^2
TransformedClose(f, g, eps) ==
  LET dx == CentreOf(f).cx - CentreOf(g).cx
      dy == CentreOf(f).cy - CentreOf(g).cy
  IN 9 * dx * dx + 36 * dy * dy <= 16 * eps * eps

\* the input fragments linked to those of S by a chain of close fragments
RECURSIVE CentreChain(_)
CentreChain(S) ==
  LET T == S \cup {g \in Range(regions) :
                     \E f \in S : TransformedClose(f, g, CLUSTERING_EPS)}
  IN IF T = S THEN S ELSE CentreChain(T)

SameCluster(f, g) ==
  \E k \in 1..Len(bubble_groups) : {f, g} \subseteq Range(bubble_groups[k])

AbsDiff(a, b) == IF a >= b THEN a - b ELSE b - a

\* C12 (clustering rule): with eps = 225, vertical_weight = 1.5 and
\* horizontal_penalty = 0.75, two fragments are in the same group of
\* group_text_regions_by_distance if and only if they are linked by a chain of
\* input fragments whose consecutive transformed centers are at distance
\* <= eps; two fragments alone with centers 500 px apart at equal y give two
\* groups, and with centers 30 px apart at equal x give one group.
C12_ClusteringRule ==
  pc = "clustered" =>
    /\ \A f, g \in Range(regions) : SameCluster(f, g) <=> g \in CentreChain({f})
    /\ Len(regions) = 2 =>
         LET c1 == CentreOf(regions[1])
             c2 == CentreOf(regions[2])
         IN /\ (c1.cy = c2.cy /\ AbsDiff(c1.cx, c2.cx) = 500) => Len(bubble_groups) = 2
            /\ (c1.cx = c2.cx /\ AbsDiff(c1.cy, c2.cy) = 30) => Len(bubble_groups) = 1

\* C12's case: three fragments in one group, two of which are not close to
\* each other and are linked through the third
C12_Witness ==
  /\ pc = "clustered"
  /\ Len(regions) = 3
  /\ Len(bubble_groups) = 1
  /\ \E f, g \in Range(regions) : ~TransformedClose(f, g, CLUSTERING_EPS)

\* position of a fragment in the input list (every fragment has its own text)
InputIndex(f) == CHOOSE k \in 1..Len(regions) : regions[k] = f

\* C25 (clustering order): in the output of group_text_regions_by_distance
\* the fragments of each group are in the order they have in the input list
\* and the groups are in the order of the input position of their first
\* fragment; the output is the same however DBSCAN numbers the clusters, so
\* the same input gives the same output on every run.
C25_ClusteringOrder ==
  pc = "clustered" =>
    /\ \A g \in 1..Len(bubble_groups) :
         \A a, b \in 1..Len(bubble_groups[g]) :
           a < b => InputIndex(bubble_groups[g][a]) < InputIndex(bubble_groups[g][b])
    /\ \A g, h \in 1..Len(bubble_groups) :
         g < h => InputIndex(bubble_groups[g][1]) < InputIndex(bubble_groups[h][1])
    /\ \A labels \in Labellings([k \in 1..Len(regions) |-> Center(regions[k])],
                                CLUSTERING_EPS, VERTICAL_WEIGHT_Q, HORIZONTAL_PENALTY_Q) :
         GroupByLabels(regions, labels) = bubble_groups

\* C25's case: the first and the third fragment form a group, the second one
\* a group of its own that comes after it
C25_Witness ==
  /\ pc = "clustered"
  /\ Len(regions) = 3
  /\ bubble_groups = <<<<regions[1], regions[3]>>, <<regions[2]>>>>

\* C11 as stated: group_text_regions_by_distance, merge_overlapping_bubbles
\* and filter_and_prioritize_bubbles have no failure outcome on well-formed
\* input: for every list of non-empty groups and every max_count >= 0, groups
\* of equal bounding-box area included, each returns without raising, and an
\* empty input list yields an empty output list.
C11_NoFailureOutcome ==
  /\ pc = "filtered" => filter_out.kind = "return"
  /\ (pc = "filtered" /\ filter_arg = <<>>) => filter_out.value = <<>>
  /\ (pc = "clustered" /\ regions = <<>>) => bubble_groups = <<>>
  /\ (pc = "return" /\ merge_arg = <<>>) => bubble_groups = <<>>

\* merge_overlapping_bubbles is running its loops
Merging == pc \in {"outer", "row", "pair"}

\* how far the merge is from its end: the groups left, then the phase of the
\* pass (a pass that merged, its end, a pass that has not merged, its end),
\* then the pairs the pass has left
MergeMeasure ==
  LET n == Len(bubble_groups)
  IN IF ~Merging THEN <<0, 0, 0>>
     ELSE <<n,
            IF pc = "outer" THEN (IF merged THEN 2 ELSE 0)
            ELSE (IF merged THEN 3 ELSE 1),
            IF pc = "outer" THEN 0
            ELSE (n - i) * (n + 2) + (IF pc = "row" THEN n + 1 ELSE n - j)>>

\* some two of the boxes at hand overlap
SomePairOverlaps ==
  \E a, b \in 1..Len(bubble_boxes) :
    a < b /\ RectsOverlap([minX |-> bubble_boxes[a][1], minY |-> bubble_boxes[a][2],
                           maxX |-> bubble_boxes[a][3], maxY |-> bubble_boxes[a][4]],
                          [minX |-> bubble_boxes[b][1], minY |-> bubble_boxes[b][2],
                           maxX |-> bubble_boxes[b][3], maxY |-> bubble_boxes[b][4]])

\* C22 (merge termination): merge_overlapping_bubbles ends on every list of n
\* groups: every step of its loops lowers a measure that cannot be lowered
\* forever.  A merge lowers the number of groups by exactly one and no other
\* step changes it, and a group is always left, so there are at most n-1
\* merges.  The outer loop starts a pass again only with merged set, which
\* only a merge sets and the start of a pass clears; it exits exactly when
\* merged is clear at the end of a pass, and then no two boxes overlap.
C22_MergeTerminates ==
  /\ [][Merging => LexLess(MergeMeasure', MergeMeasure)]_vars
  /\ [](\A k \in 1..3 : MergeMeasure[k] \in Nat)
  /\ [][Merging =>
          \/ Len(bubble_groups') = Len(bubble_groups)
          \/ /\ Len(bubble_groups') = Len(bubble_groups) - 1
             /\ pc = "pair" /\ merged']_vars
  /\ []((Merging \/ pc = "return") => Len(bubble_groups) >= Min2(1, Len(merge_arg)))
  /\ [][(Merging /\ ~merged /\ merged') => Len(bubble_groups') = Len(bubble_groups) - 1]_vars
  /\ [][pc = "outer" => (IF merged THEN pc' = "row" /\ ~merged' ELSE pc' = "return")]_vars
  /\ []((pc = "outer" /\ ~merged) => ~SomePairOverlaps)
  /\ [][(Merging /\ pc' = "return") => (pc = "outer" /\ ~merged)]_vars

\* C22's case: three groups and two merges, the most there can be, and the
\* call returned
C22_Witness ==
  /\ pc = "return"
  /\ merge_calls = 1
  /\ Len(merge_arg) = 3
  /\ Len(bubble_groups) = 1

\* the box (min_x, min_y, max_x, max_y) that the smallest rectangle around
\* the fragments of a group makes
TightBox(group) ==
  LET r == RectOf(Range(group)) IN <<r.minX, r.minY, r.maxX, r.maxY>>

\* C23 (bounding box never stale): at every step of the loops of
\* merge_overlapping_bubbles, and when they are left, bubble_groups and
\* bubble_boxes have the same length and for every index k bubble_boxes[k] is
\* the smallest axis-aligned rectangle containing every fragment currently in
\* bubble_groups[k], so the overlap test reads boxes of the current members.
C23_BoxesNeverStale ==
  (Merging \/ (pc = "return" /\ Len(merge_arg) >= 2)) =>
    /\ Len(bubble_boxes) = Len(bubble_groups)
    /\ \A k \in 1..Len(bubble_groups) : bubble_boxes[k] = TightBox(bubble_groups[k])

\* C23's case: a group was merged from fragments none of which fills its box,
\* and the overlap test is about to read that box
C23_Witness ==
  /\ pc = "pair"
  /\ j < Len(bubble_groups)
  /\ Len(bubble_groups[i + 1]) >= 2
  /\ \A f \in Range(bubble_groups[i + 1]) : TightBox(<<f>>) # bubble_boxes[i + 1]

\* a box (min_x, min_y, max_x, max_y) as a rectangle
AsRect(box) == [minX |-> box[1], minY |-> box[2], maxX |-> box[3], maxY |-> box[4]]

\* the pair the overlap test is about to read overlaps
PairOverlaps ==
  /\ pc = "pair"
  /\ j < Len(bubble_groups)
  /\ RectsOverlap(AsRect(bubble_boxes[i + 1]), AsRect(bubble_boxes[j + 1]))

\* position k (from 1) of the lists before a merge of the pair (i, j), for
\* position n of the lists after it
Before(n) == IF n <= j THEN n ELSE n + 1

\* C24 (merge step): when the groups at positions i < j overlap, the step
\* leaves one group less; the merged group is at position i, with group i's
\* fragments followed by group j's, each in their previous order, and its box
\* is the union rectangle of the two boxes; group j and its box are gone; and
\* every other group and box is where it was, or one position down when it
\* was after j, so their relative order is unchanged.
C24_MergeStep ==
  [][PairOverlaps =>
       /\ i < j
       /\ i' = i /\ j' = j
       /\ Len(bubble_groups') = Len(bubble_groups) - 1
       /\ Len(bubble_boxes') = Len(bubble_boxes) - 1
       /\ bubble_groups'[i + 1] = bubble_groups[i + 1] \o bubble_groups[j + 1]
       /\ AsRect(bubble_boxes'[i + 1]) =
            [minX |-> Min2(bubble_boxes[i + 1][1], bubble_boxes[j + 1][1]),
             minY |-> Min2(bubble_boxes[i + 1][2], bubble_boxes[j + 1][2]),
             maxX |-> Max2(bubble_boxes[i + 1][3], bubble_boxes[j + 1][3]),
             maxY |-> Max2(bubble_boxes[i + 1][4], bubble_boxes[j + 1][4])]
       /\ \A n \in 1..Len(bubble_groups') :
            n # i + 1 => /\ bubble_groups'[n] = bubble_groups[Before(n)]
                         /\ bubble_boxes'[n] = bubble_boxes[Before(n)]]_vars

\* C24's case: the first two of three groups were merged and the third, which
\* was after j, moved down one position
C24_Witness ==
  /\ pc = "pair"
  /\ merged
  /\ i = 0 /\ j = 1
  /\ Len(merge_arg) = 3
  /\ bubble_groups = <<merge_arg[1] \o merge_arg[2], merge_arg[3]>>

\* the rectangle of a persisted bubble record
RecordRect(b) ==
  [minX |-> b.x, maxX |-> b.x + b.width, minY |-> b.y, maxY |-> b.y + b.height]

\* C28 (pipeline invariant): the record visualize_speech_bubbles persists
\* through cluster -> merge -> prioritize -> save_final_bounds contains at most
\* MAX_BUBBLES (2) bubbles, their rectangles pairwise do not overlap, and every
\* fragment in the record is an input fragment occurring in at most one bubble
\* (and at most once in it).
C28_PipelineInvariant ==
  (pc = "done" /\ final_file.state = "written") =>
    LET rec == final_file.bubbles
    IN /\ Len(rec) <= MAX_BUBBLES
       /\ \A g, h \in 1..Len(rec) :
            g # h => ~RectsOverlap(RecordRect(rec[g]), RecordRect(rec[h]))
       /\ \A g \in 1..Len(rec) : Range(rec[g].text_regions) \subseteq Range(regions)
       /\ \A r \in Range(regions) :
            Cardinality({<<g, k>> \in (1..Len(rec)) \X (1..Len(regions)) :
                           k <= Len(rec[g].text_regions) /\ rec[g].text_regions[k] = r}) <= 1

\* C28's case: the merge left three bubbles, the two largest of which were
\* written to the final-bounds file
C28_Witness ==
  /\ pc = "done" /\ final_file.state = "written"
  /\ Len(filter_arg) = 3
  /\ Len(final_file.bubbles) = 2

\* C30 (no overwrite without the flag): when the final-bounds file of an input
\* already exists and overwrite is false, save_final_bounds returns None and
\* leaves the file as it was, and visualize_speech_bubbles then writes nothing
\* (no final bounds, no visualization image) and returns None; with overwrite
\* true the file is replaced by the newly computed record.  save_ret is
\* "none" when the run ended before save_final_bounds was called; then too
\* nothing is written.
C30_NoOverwriteWithoutFlag ==
  [][(pc = "start" /\ pc' = "done" /\ final_file.state # "absent") =>
       /\ ~overwrite' =>
            /\ final_file' = final_file
            /\ vis_file' = vis_file
       /\ (~overwrite' /\ save_ret' # "none") =>
            /\ save_ret' = "None"
            /\ vis_ret' = "None"
       /\ (overwrite' /\ save_ret' # "none") =>
            /\ save_ret' = "path"
            /\ final_file' = [state |-> "written", bubbles |-> final_data']
            /\ final_data' = [k \in 1..Len(filter_out'.value) |->
                                FinalBubble(k - 1, filter_out'.value[k])]]_vars

\* C30's case: the final-bounds file existed, overwrite was false,
\* save_final_bounds was called with a record of two bubbles and returned
\* None, while no visualization image existed
C30_Witness ==
  /\ pc = "done"
  /\ existed /\ ~overwrite
  /\ save_ret = "None"
  /\ Len(final_data) = 2
  /\ final_file = OldFile
  /\ vis_file = "absent"

(***************************************************************************)
(* Claims about fit_text_to_bubble                                         *)
(***************************************************************************)
\* the call is over, by a return or by an exception
FitDone == lpc \in {"returned", "raised"}

\* no glyph of the text fits the width budget at the smallest size
TooNarrowForAnyGlyph ==
  \A k \in 1..Len(text) :
    text[k] # Space => 100 * GlyphWidth(text[k], min_font_size) > 95 * bubble_width

\* C2 as stated: fit_text_to_bubble never raises: for every non-empty text and
\* every rectangle of positive width and height, however narrow, it returns a
\* font, a non-empty line sequence and a line height, and on a rectangle too
\* narrow for any glyph the lines hold one character each.
C2_NeverRaises ==
  (FitDone /\ Len(text) > 0 /\ bubble_width > 0 /\ bubble_height > 0) =>
    /\ ret.kind = "return"
    /\ Len(ret.lines) > 0
    /\ ret.line_height > 0
    /\ TooNarrowForAnyGlyph => \A k \in 1..Len(ret.lines) : Len(ret.lines[k]) = 1

\* the call returned from inside the font-size scan, not from the fallback after it
ReturnedFromScan == lpc = "returned" /\ ret.site \in {"step1", "step2"}

\* C3 as stated (layout fit invariant): whenever fit_text_to_bubble returns
\* from inside the scan, through step 1 or through step 2, every returned
\* line's measured width is <= 0.95 x bubble_width and len(lines) x line_height
\* is <= 0.95 x bubble_height.
C3_LayoutFits ==
  ReturnedFromScan =>
    /\ \A k \in 1..Len(ret.lines) :
         100 * TextWidth(ret.lines[k], ret.font) <= 95 * bubble_width
    /\ 100 * (Len(ret.lines) * ret.line_height) <= 95 * bubble_height

\* C4 as stated: the returned font size lies between the minimum size (12) and
\* the maximum size the caller passes as font_size.
C4_SizeWithinCallerMax ==
  lpc = "returned" => (min_font_size <= ret.font /\ ret.font <= font_size)

\* step 1 at size t yields a fitting block: all lines within the width
\* budget and the block within the height budget
Step1FitsAt(t) ==
  /\ ~TextwrapRaises(WrapWidth(bubble_width, t))
  /\ LET ls == TextwrapWrap(text, WrapWidth(bubble_width, t))
     IN /\ \A k \in 1..Len(ls) : 100 * TextWidth(ls[k], t) <= 95 * bubble_width
        /\ 100 * (Len(ls) * LineHeightAt(t)) <= 95 * bubble_height

\* step 2 at size t yields a fitting block: the block within the height budget
Step2FitsAt(t) ==
  100 * (Len(HyphenWrap(text, t, bubble_width)) * LineHeightAt(t)) <= 95 * bubble_height

\* C5 (largest fitting size): when fit_text_to_bubble returns size s from the
\* scan, no size t with s < t <= the scan's start size has a fitting block by
\* step 1 or by step 2, and at s the result of step 1 is returned whenever
\* step 1 fits.
C5_LargestFittingSize ==
  ReturnedFromScan =>
    /\ \A t \in (ret.font + 1)..max_font_size : ~Step1FitsAt(t) /\ ~Step2FitsAt(t)
    /\ Step1FitsAt(ret.font) \/ Step2FitsAt(ret.font)
    /\ Step1FitsAt(ret.font) =>
         /\ ret.site = "step1"
         /\ ret.lines = TextwrapWrap(text, WrapWidth(bubble_width, ret.font))

\* C5's case: the scan went below its start size and returned a hyphenated
\* layout of step 2
C5_Witness ==
  /\ ReturnedFromScan
  /\ ret.site = "step2"
  /\ ret.font < max_font_size
  /\ \E k \in 1..Len(ret.lines) : ret.lines[k][Len(ret.lines[k])] = Hyphen

\* C13 (layout determinism): what fit_text_to_bubble returns (font size, line
\* sequence, line height) is a function of its arguments alone, and a second
\* call with the arguments of the first gives what the first gave, whatever
\* was called before it and whatever the global counters hold.
C13_LayoutDeterminism ==
  (FitDone /\ fit_calls = 2) =>
    /\ ret = fit_text_to_bubble(text, bubble_width, bubble_height, font_size)
    /\ bubble_width = first_call.bubble_width => ret = first_call.ret

\* C13's case: a call that raised and was counted, then the same call once
\* more, ended the same way
C13_Witness ==
  /\ FitDone
  /\ fit_calls = 2
  /\ bubble_width = first_call.bubble_width
  /\ WARNING_COUNT = 1

\* no size of the scan yields a fitting block, by step 1 or by step 2
NoSizeFits ==
  \A t \in min_font_size..max_font_size : ~Step1FitsAt(t) /\ ~Step2FitsAt(t)

\* C18 as stated (degraded mode): if no size in the scan yields a fitting
\* block, fit_text_to_bubble returns the minimum font size (12) with exactly
\* the lines that the step-2 wrap with hyphenation produces at that size,
\* without any width or height check: the code after the scan produces the
\* lines that step 2 inside the scan would at the minimum size.
C18_DegradedMode ==
  (FitDone /\ NoSizeFits) =>
    /\ ret.kind = "return"
    /\ ret.font = min_font_size
    /\ ret.lines = HyphenWrap(text, min_font_size, bubble_width)
    /\ ret.line_height = LineHeightAt(min_font_size)

\* the prefix of length n of what remains of a word, as it is measured and
\* emitted: with a trailing "-" when it is shorter than the remainder
PrefixPiece(rem, n) ==
  IF n < Len(rem) THEN Append(SubSeq(rem, 1, n), Hyphen) ELSE SubSeq(rem, 1, n)

WithinBudget(piece, size, bw) == 100 * TextWidth(piece, size) <= 95 * bw

\* pieces are what the hyphenation rule makes of the remainder rem of a word
RECURSIVE PiecesFollowRule(_, _, _, _)
PiecesFollowRule(pieces, rem, size, bw) ==
  IF pieces = <<>> THEN rem = <<>>
  ELSE
    LET fitting == {n \in 1..Len(rem) : WithinBudget(PrefixPiece(rem, n), size, bw)}
    IN /\ rem # <<>>
       /\ IF fitting # {}
          THEN /\ Head(pieces) = PrefixPiece(rem, SetMax(fitting))
               /\ PiecesFollowRule(Tail(pieces),
                                   SubSeq(rem, SetMax(fitting) + 1, Len(rem)), size, bw)
          ELSE /\ Head(pieces) = <<rem[1]>>
               /\ PiecesFollowRule(Tail(pieces), Tail(rem), size, bw)

\* C19 (hyphenation rule of step 2): while a word wider than the budget is
\* split, each piece emitted because it fits is the longest prefix of the
\* remaining word whose width, measured with a trailing "-" when the prefix is
\* shorter than the remainder, is within the budget; it carries the "-"
\* exactly when it is not the final remainder; and one bare character is
\* force-emitted only when no prefix of length >= 1 fits.
C19_HyphenationRule ==
  (lpc \in {"scan", "returned"} /\ test_size >= min_font_size) =>
    /\ \A k \in 1..Len(Words(text)) :
         ~WithinBudget(Words(text)[k], test_size, bubble_width) =>
           PiecesFollowRule(Hyphenate(Words(text)[k], test_size, bubble_width),
                            Words(text)[k], test_size, bubble_width)
    /\ (lpc = "returned" /\ ret.site = "step2" /\ Len(Words(text)) = 1
          /\ ~WithinBudget(Words(text)[1], ret.font, bubble_width)) =>
         PiecesFollowRule(ret.lines, Words(text)[1], ret.font, bubble_width)

\* C19's case: step 2 returned a single word cut into a piece of several
\* characters with a hyphen, followed by the bare remainder
C19_Witness ==
  /\ lpc = "returned" /\ ret.site = "step2"
  /\ Len(Words(text)) = 1
  /\ Len(ret.lines) = 2
  /\ Len(ret.lines[1]) >= 3
  /\ ret.lines[1][Len(ret.lines[1])] = Hyphen
  /\ ret.lines[2][Len(ret.lines[2])] # Hyphen

\* the words of a line: the text between its single spaces
RECURSIVE LineWords(_, _)
LineWords(line, cur) ==
  IF line = <<>> THEN <<cur>>
  ELSE IF Head(line) = Space THEN <<cur>> \o LineWords(Tail(line), <<>>)
  ELSE LineWords(Tail(line), Append(cur, Head(line)))

\* C20 as stated: step 1 wraps without breaking words: every layout accepted
\* by step 1 consists of lines each made of whole whitespace-delimited words
\* of the text joined by single spaces, and no word of the text is split
\* across two lines, also when it is longer than the estimated characters per
\* line.
C20_Step1KeepsWords ==
  (lpc = "returned" /\ ret.site = "step1") =>
    Concat([k \in 1..Len(ret.lines) |-> LineWords(ret.lines[k], <<>>)]) = Words(text)

\* a line without the hyphen marker the hyphenation step may have put at its end
Unmarked(line) ==
  IF line # <<>> /\ line[Len(line)] = Hyphen THEN SubSeq(line, 1, Len(line) - 1)
  ELSE line

\* the characters of s that are not spaces, in order
NonSpace(s) == SelectSeq(s, LAMBDA c : c # Space)

\* C27 (text preservation): for every text and rectangle for which
\* fit_text_to_bubble returns, the non-whitespace characters of the returned
\* lines, read in line order with the hyphen markers of the hyphenation step
\* removed, are exactly the non-whitespace characters of the text in the same
\* order, whichever of step 1, step 2 and the code after the scan returned;
\* the only hyphens in the lines are such markers, at the end of a line.
C27_TextPreserved ==
  (lpc = "returned") =>
    /\ NonSpace(Concat([k \in 1..Len(ret.lines) |-> Unmarked(ret.lines[k])]))
         = NonSpace(text)
    /\ \A k \in 1..Len(ret.lines) :
         \A p \in 1..Len(ret.lines[k]) :
           ret.lines[k][p] = Hyphen => p = Len(ret.lines[k])

\* C27's case: step 2 returned lines of which one ends with a hyphen marker
\* and another is a force-emitted character wider than the budget
C27_Witness ==
  /\ lpc = "returned" /\ ret.site = "step2"
  /\ \E k \in 1..Len(ret.lines) : ret.lines[k][Len(ret.lines[k])] = Hyphen
  /\ \E k \in 1..Len(ret.lines) :
       Len(ret.lines[k]) = 1 /\ ~FitsWidth(ret.lines[k], ret.font, bubble_width)

(***************************************************************************)
(* Claims about the callers of fit_text_to_bubble                          *)
(***************************************************************************)
\* the record has the four geometry fields
HasGeometry(bubble) == {"x", "y", "width", "height"} \subseteq DOMAIN bubble

\* the text the caller has for the bubble of its k-th report
TextAtReport(k) ==
  IF image_ret.caller = "add_text_to_bubble" THEN translations[1]
  ELSE translations[conditions[k].bubble + 1]

\* C14 as stated: a rectangle with width <= 0 or height <= 0 handed to the
\* layout is reported as an invalid-geometry condition and is never laid out
\* or drawn, by fit_text_to_bubble itself and by both of its callers, for a
\* non-positive width and a non-positive height alike.
C14_InvalidGeometryReported ==
  ipc = "done" =>
    \A k \in 1..Len(conditions) :
      LET bubble == bubbles[conditions[k].bubble + 1]
          t == Strip(TextAtReport(k))
      IN (HasGeometry(bubble) /\ (bubble.width <= 0 \/ bubble.height <= 0) /\ t # <<>>) =>
           /\ conditions[k].condition = "invalid_dimensions"
           /\ \A d \in Range(drawn) : d.bubble # conditions[k].bubble
           /\ fit_text_to_bubble(t, bubble.width, bubble.height,
                                 Min2(cli_font_size, CallerCap)).kind # "return"

\* C15 as stated: in process_all_bubbles_in_image a bubble record lacking a
\* geometry field is surfaced as a missing-data condition of its own: the
\* field is not replaced by zero (the bubble is neither drawn nor reported as
\* having a zero dimension), and the loop does not skip the bubble and carry
\* on with the remaining bubbles.
C15_MissingFieldSurfaced ==
  image_ret.caller # "add_text_to_bubble" =>
    \A k \in 1..Len(conditions) :
      (~HasGeometry(bubbles[k]) /\ translations[k] # <<>>) =>
        /\ conditions[k].condition \notin {"added", "invalid_dimensions", "empty_text"}
        /\ k = Len(conditions)


\* how far the call is from its end: the sizes the scan has left, then the
\* words the word loop has left, then the characters the hyphenation loop has
\* left; <<0, 0, 0>> when the call is over
Measure ==
  CASE lpc = "call" -> <<max_font_size + 1, 0, 0>>
    [] lpc = "scan" -> <<test_size, Len(text) + 2, 0>>
    [] lpc = "words" -> <<test_size, Len(locals.words) + 1, Len(locals.remaining_word)>>
    [] lpc = "hyphenate" -> <<test_size, Len(locals.words) + 1, Len(locals.remaining_word)>>
    [] OTHER -> <<0, 0, 0>>

\* C21 (termination): a call of fit_text_to_bubble ends, by a return or by
\* an exception, for every text and rectangle: every statement it runs lowers
\* a measure that cannot be lowered forever, and a call that is not over has
\* a statement to run.  Each turn of the hyphenation loop leaves a shorter
\* remaining word, also when no prefix fits; the scan's size never goes up
\* and is smaller each time the scan's loop starts a new turn, so no size is
\* visited twice.  What the statements return is what the call as a whole
\* returns.
C21_Terminates ==
  /\ [][LexLess(Measure', Measure)]_vars
  /\ [](\A k \in 1..3 : Measure[k] \in Nat)
  /\ [](lpc \in {"call", "scan", "words", "hyphenate", "returned", "raised"})
  /\ [](lpc = "hyphenate" => locals.remaining_word # <<>>)
  /\ [][lpc = "hyphenate" =>
          Len(locals'.remaining_word) < Len(locals.remaining_word)]_vars
  /\ [][lpc # "call" => test_size' <= test_size]_vars
  /\ [][(lpc # "call" /\ lpc' = "scan") => test_size' < test_size]_vars
  /\ [](FitDone => ret = fit_text_to_bubble(text, bubble_width, bubble_height, font_size))

\* C21's case: the hyphenation loop force-emitted a character that no prefix
\* fitted for, with more of the word remaining, and the call went on to return
C21_Witness ==
  /\ lpc = "returned"
  /\ ret.site = "step2"
  /\ \E k \in 1..(Len(ret.lines) - 1) :
       /\ Len(ret.lines[k]) = 1
       /\ ~WithinBudget(ret.lines[k], ret.font, bubble_width)
  /\ Len(Words(text)) = 1
  /\ Len(text) >= 2


\* floor(a / 2) for an integer a
FloorHalf(a) == IF a >= 0 THEN a \div 2 ELSE 0 - ((1 - a) \div 2)

\* C26 (rendering geometry): for a bubble with its four geometry fields, line
\* k (from 0) of the n lines drawn is at
\* x = bubble.x + floor((width - line_width_k) / 2) and
\* y = bubble.y + floor((height - n x line_height) / 2) + k x line_height, in
\* both callers; so each line's left and right margins differ by at most 1,
\* the block's top and bottom margins differ by at most 1, and when every line
\* is within 0.95 x width and the block within 0.95 x height, no margin is
\* negative: the lines lie inside the rectangle.
C26_RenderingGeometry ==
  \A e \in 1..Len(drawn) :
    LET d == drawn[e]
        bubble == bubbles[d.bubble + 1]
        n == Len(d.ops)
        line_height == LineHeightAt(d.font)
    IN (HasGeometry(bubble) /\ n > 0) =>
         /\ \A k \in 1..n :
              LET line_width == TextWidth(d.ops[k].line, d.font)
                  left == d.ops[k].x_position - bubble.x
                  right == (bubble.x + bubble.width) - (d.ops[k].x_position + line_width)
              IN /\ d.ops[k].x_position = bubble.x + FloorHalf(bubble.width - line_width)
                 /\ d.ops[k].y_position =
                      bubble.y + FloorHalf(bubble.height - n * line_height)
                        + (k - 1) * line_height
                 /\ AbsDiff(left, right) <= 1
                 /\ 100 * line_width <= 95 * bubble.width => (left >= 0 /\ right >= 0)
         /\ LET top == d.ops[1].y_position - bubble.y
                bottom == (bubble.y + bubble.height) - (d.ops[n].y_position + line_height)
            IN /\ AbsDiff(top, bottom) <= 1
               /\ 100 * (n * line_height) <= 95 * bubble.height => (top >= 0 /\ bottom >= 0)

\* C26's case: process_all_bubbles_in_image drew a text on two lines, within
\* the budgets, with a left margin one pixel smaller than the right one and a
\* top margin one pixel smaller than the bottom one
C26_Witness ==
  /\ ipc = "done"
  /\ image_ret.caller = "process_all_bubbles_in_image"
  /\ \E e \in 1..Len(drawn) :
       LET d == drawn[e]
           bubble == bubbles[d.bubble + 1]
       IN /\ HasGeometry(bubble)
          /\ Len(d.ops) = 2
          /\ \A k \in 1..2 : 100 * TextWidth(d.ops[k].line, d.font) <= 95 * bubble.width
          /\ 2 * (d.ops[1].x_position - bubble.x) + 1
               = bubble.width - TextWidth(d.ops[1].line, d.font)
          /\ 2 * (d.ops[1].y_position - bubble.y) + 1
               = bubble.height - 2 * LineHeightAt(d.font)


\* C29 (counter accounting): a call of process_all_bubbles_in_image, started
\* with the three counters at 0, ends with exactly one of SUCCESS_COUNT and
\* FAILURE_COUNT at 1 and the other at 0 (SUCCESS_COUNT if and only if the
\* image was saved with at least one bubble drawn); neither is touched before
\* the call ends, no counter ever goes down or up by more than 1 in a step,
\* and when the image is saved the number of bubbles drawn plus WARNING_COUNT
\* equals the number of bubbles of the image.
C29_CounterAccounting ==
  /\ []((ipc = "done" /\ image_ret.caller = "process_all_bubbles_in_image") =>
          /\ SUCCESS_COUNT + FAILURE_COUNT = 1
          /\ SUCCESS_COUNT \in {0, 1} /\ FAILURE_COUNT \in {0, 1}
          /\ SUCCESS_COUNT = 1 <=> (image_ret.saved /\ Len(drawn) >= 1)
          /\ bubbles_processed = Len(drawn)
          /\ image_ret.saved => Len(drawn) + WARNING_COUNT = Len(bubbles))
  /\ [](ipc # "done" => (SUCCESS_COUNT = 0 /\ FAILURE_COUNT = 0))
  /\ [][/\ SUCCESS_COUNT' \in {SUCCESS_COUNT, SUCCESS_COUNT + 1}
        /\ FAILURE_COUNT' \in {FAILURE_COUNT, FAILURE_COUNT + 1}
        /\ WARNING_COUNT' \in {WARNING_COUNT, WARNING_COUNT + 1}
        /\ (WARNING_COUNT' = WARNING_COUNT + 1) => (Len(drawn') = Len(drawn))
        /\ (Len(drawn') = Len(drawn) + 1) => (WARNING_COUNT' = WARNING_COUNT)]_vars

\* C29's case: an image of two bubbles was saved with one bubble drawn and one
\* warning counted
C29_Witness ==
  /\ ipc = "done" /\ image_ret.caller = "process_all_bubbles_in_image"
  /\ image_ret.saved
  /\ Len(bubbles) = 2 /\ Len(drawn) = 1 /\ WARNING_COUNT = 1
  /\ SUCCESS_COUNT = 1 /\ FAILURE_COUNT = 0

====
